---- MODULE Spec2Model ----
(***************************************************************************)
(* The resilient exchange client of src/api/client.py (BingXClient): the   *)
(* per-endpoint sliding-window rate limiter, the circuit breaker, the      *)
(* retry executor and the public operations built on them.                 *)
(*                                                                         *)
(* Time is counted in ticks of 0.1 s, the smallest duration the code uses  *)
(* (the 0.1 s the limiter adds to its wait): the 10 s window is 100 ticks, *)
(* the 300 s recovery time 3000 ticks, a backoff of d seconds 10*d ticks.  *)
(* The tasks are coroutines of one asyncio event loop: the code between    *)
(* two awaits runs without interleaving, so an action is the code from one *)
(* suspension point (a sleep, the awaited exchange call) to the next.      *)
(*                                                                         *)
(* The analysis worker of src/analysis/worker.py (AnalysisWorker) runs on  *)
(* the same event loop: start() and stop(), the cycle loop, the per-asset  *)
(* analysis tasks of a cycle and the persistence of their results.         *)
(***************************************************************************)
EXTENDS Integers, Sequences, FiniteSets, TLC

VARIABLES
    now,                 \* time.time(), in ticks
    request_timestamps,  \* self._request_timestamps: endpoint -> deque of ticks
    circuit_breaker,     \* self._circuit_breaker (the three mutable fields)
    initialized,         \* self._initialized
    calls,               \* public operations called so far (bounds the runs)
    task,                \* per coroutine: where it is in its call, and the call's log
    hist,                \* history of the breaker, read by the properties only:
                         \*   streak: failures recorded since the breaker was last
                         \*     closed with failure_count 0; -1 once a success
                         \*     intervened while it was not
                         \*   since_reset: failures recorded since the recovery
                         \*     path last reset the breaker, counted up to
                         \*     failure_threshold; -1 before any reset
    is_running,          \* AnalysisWorker.is_running
    config,              \* the settings: SCAN_INTERVAL_SECONDS, the test-mode flags,
                         \*   and for the client the credentials and sandbox flags
    loop,                \* per start() call: where it is, its cycle, the cycle's log
    analysis,            \* per start() call and asset: the cycle's analysis task
    stopper,             \* the stop() call in progress
    analysis_stats,      \* AnalysisWorker.analysis_stats (the four counters)
    coordinator,         \* the worker coordinator, as the worker's calls leave it
    starts,              \* start() calls made so far (bounds the runs)
    pcall                \* a call of _persist_analysis_result on its own, and its log

\* The worker's variables and the client's.
worker_vars ==
    <<is_running, config, loop, analysis, stopper, analysis_stats, coordinator,
      starts, pcall>>

client_vars == <<request_timestamps, circuit_breaker, calls, task, hist>>

vars ==
    <<now, request_timestamps, circuit_breaker, initialized, calls, task, hist,
      is_running, config, loop, analysis, stopper, analysis_stats, coordinator,
      starts, pcall>>

\* The concurrent coroutines that call into the client.
Callers == {"t1", "t2"}

\* ------------------------------------------------------------ bounds
\* Last tick of the rate limiter's runs (two windows and a bit).
RLMaxTime == 205
\* Last tick of the retry executor's runs (two recovery periods and a bit).
ExecMaxTime == 7000
\* Last tick of the two-caller runs of the retry executor.
PairMaxTime == 5000
\* Last tick of the runs of the public operations.
ClientMaxTime == 2000
\* Last tick of the runs of fetch_ticker against the breaker.
TickerMaxTime == 3000
\* Last tick of the runs of a fresh client (five attempts and their backoffs).
FreshMaxTime == 2800
\* Calls of analyze_specific_symbol made in one run.
MaxOnDemand == 1
\* Public operations called in one run.
ClientMaxCalls == 2
\* Assets the repository returns for one cycle, at most.
MaxAssets == 3
\* Last tick of the worker's runs.
WorkerMaxTime == 600
\* start() calls made in one run.
MaxStarts == 2

\* ------------------------------------------------- program constants
failure_threshold == 3
recovery_time == 3000
rate_limit_window == 100
\* The 0.1 s added to the limiter's wait.
WaitMargin == 1
\* self._rate_limits.get(endpoint, 5): the budget of a key not in the table.
DefaultLimit == 5
default_max_retries == 5
default_delay_factor == 2
\* await asyncio.sleep(60) after an empty asset list, in ticks
EmptyAssetsSleep == 600
\* await asyncio.sleep(30) in the loop's exception handler, in ticks
ErrorSleep == 300
\* int(base_interval * 0.3) in aggressive test mode: the percentage
AggressivePercent == 30
\* persistence_threshold, in hundredths: 0.3, and 0.1 in test mode
PersistenceThreshold == 30
TestPersistenceThreshold == 10
\* The confidence of a forced signal (0.8), the boost (0.3) and its cap (0.95).
ForcedConfidence == 80
ConfidenceBoost == 30
BoostCap == 95
\* The timeframes one analysis fetches: spot, 2h, 4h.
Timeframes == 3
\* signal_result.get('confidence', 0) >= 0.4 counts a signal in the statistics
StatsThreshold == 40

\* The keys of _rate_limits, and "other" for any key that is not in the table.
Endpoints ==
    {"fetch_ticker", "fetch_ohlcv", "fetch_markets", "fetch_orderbook",
     "create_order", "cancel_order", "fetch_balance", "fetch_order_status",
     "fetch_open_orders", "other"}

\* Twice the value _rate_limits holds (1.5 and 0.5 are not integers).
RateLimitTwice(endpoint) ==
    CASE endpoint = "fetch_ticker"       -> 3
      [] endpoint = "fetch_ohlcv"        -> 3
      [] endpoint = "fetch_markets"      -> 1
      [] endpoint = "fetch_orderbook"    -> 2
      [] endpoint = "create_order"       -> 40
      [] endpoint = "cancel_order"       -> 40
      [] endpoint = "fetch_balance"      -> 4
      [] endpoint = "fetch_order_status" -> 20
      [] endpoint = "fetch_open_orders"  -> 4
      [] OTHER                           -> 2 * DefaultLimit

\* ------------------------------------------------------ task records
\* The caller-supplied arguments of a public operation, each as the validator
\* of utils.validators sees it: "ok", "bad", or "na" when the operation does
\* not take it; a symbol is "absent" when it is None or empty.
NoArgs ==
    [symbol |-> "na", side |-> "na", amount |-> "na", price |-> "na",
     timeframe |-> "na"]

\* pc: idle, rl_sleep (in the limiter's sleep), admitted (a bare
\* _check_rate_limit has recorded its request), awaiting (the exchange call of
\* the current attempt is in progress), backoff (in the executor's sleep),
\* done (the call has returned or raised; raised, inner and reason say what).
\* The other fields are the arguments and the log of the call in progress:
\* admissions counts the requests the call has recorded in a rate-limit
\* window; in a call of initialize(), probe is the probe of _test_connection
\* in progress and markets what the public probe gave ("nonempty", "empty",
\* "failed"); wire is the symbol a public operation hands to the exchange
\* operation, <<>> when it hands none.
IdleTask ==
    [pc |-> "idle", endpoint |-> "none", wake_at |-> 0, rl_sleeps |-> 0,
     admissions |-> 0, probe |-> "none", markets |-> "none",
     max_retries |-> 0, delay_factor |-> 0, attempt |-> 0, invoked |-> 0,
     n_sleeps |-> 0, last_sleep |-> 0, last_outcome |-> "none",
     uniform |-> "none", blocked_at_start |-> FALSE, executor_calls |-> 0,
     op |-> "none", args |-> NoArgs, wire |-> <<>>,
     raised |-> "none", inner |-> "none", reason |-> "none"]

\* asyncio's timers fire in deadline order: a sleeper is resumed only when its
\* deadline has passed and no sleeper with an earlier deadline is still waiting.
Sleeping(q) == task[q].pc \in {"rl_sleep", "backoff"}

TimerDue(p) ==
    /\ now >= task[p].wake_at
    /\ \A q \in Callers : Sleeping(q) => task[q].wake_at >= task[p].wake_at

\* ---------------------------------------------------- worker records
\* The start() calls that can be in progress at once.
Starters == {"s1", "s2"}

\* The assets of the repository, in the order get_valid_assets returns them.
Assets == 1..MaxAssets

\* A trading signal as _persist_analysis_result reads it: signal_type
\* ("NEUTRAL" also when the key is missing, as in the {'error': ...} signal of a
\* failed generation) and confidence in hundredths (0 when missing).
NoSignal == [type |-> "NEUTRAL", confidence |-> 0]

\* One entry of the list _analyze_all_assets returns: the asset, whether it
\* carries an 'error' field, its signal, and where the spot indicators put mm1
\* against center ("above", "below", or "none" when either is missing);
\* indicators counts the timeframes whose indicator dict is not empty;
\* sub_errors holds the computations whose sub-result is the empty dict or the
\* {'error': ...} dict their handler puts in place of what they failed to give.
NoResult ==
    [asset |-> 0, error |-> FALSE, signal |-> NoSignal, position |-> "none",
     indicators |-> 0, sub_errors |-> {}]

\* A start() call. pc: idle, init (awaiting initialize_client), register
\* (awaiting register_worker), gather (awaiting the cycle's tasks), broadcast
\* (awaiting connection_manager.broadcast for results[idx]), sleep (in one of
\* the loop's sleeps), unregister (awaiting unregister_worker in the except
\* clause), returned (raised says how). The other fields are the cycle in
\* progress and the log of the call; ended tells how the last cycle to end
\* ended ("normal", "empty" for an empty asset list, "exception"); passed
\* holds the positions of the results given to _persist_analysis_result and
\* ranks[i] tells that the task of results[i] was the ranks[i]-th to complete.
IdleLoop ==
    [pc |-> "idle", noop |-> FALSE, raised |-> FALSE, init_result |-> "none",
     init_calls |-> 0, register_calls |-> 0, cycles |-> 0,
     assets |-> <<>>, loop_start |-> 0, results |-> <<>>, idx |-> 0,
     cycle_duration |-> 0, wake_at |-> 0, persist_calls |-> 0,
     passed |-> {}, ranks |-> <<>>, ended |-> "none"]

\* The pcs in which a start() call is inside _run_analysis_loop.
LoopPcs == {"gather", "broadcast", "sleep"}

\* A per-asset task of _analyze_all_assets. pc: none (not created), created
\* (not yet run), permission (awaiting request_api_permission for timeframe
\* tf), candles (awaiting get_candles for tf), done. all_candles: every
\* timeframe so far gave candles; failure: what made the analysis fail;
\* permit: the timeframe whose permission request has returned and whose
\* fetch has not ended yet, or 0; rank: the task was the rank-th of its
\* cycle to complete (0 in the runs that do not keep that order).
NoAnalysis ==
    [pc |-> "none", tf |-> 0, all_candles |-> TRUE, failure |-> "none",
     result |-> NoResult, permit |-> 0, rank |-> 0]

\* The stop() call: idle, unregister (awaiting unregister_worker), returned;
\* pending_at_return: per-asset tasks that had not ended when it returned.
IdleStop == [pc |-> "idle", noop |-> FALSE, pending_at_return |-> 0]

\* A call of analyze_specific_symbol. pc: idle, analysing (inside
\* _analyze_single_asset, whose task record is an), persisting (awaiting the
\* broadcast of _persist_analysis_result), done. returned is the dict it
\* returns, raised tells that it raised instead; persist_calls counts its
\* calls of _persist_analysis_result, running is is_running at the call and
\* count the calls made so far.
NoOnDemand ==
    [pc |-> "idle", an |-> NoAnalysis, returned |-> NoResult, raised |-> FALSE,
     persist_calls |-> 0, running |-> FALSE, count |-> 0]

\* A call of _persist_analysis_result: its input, and the calls it has made
\* to the persistence and broadcast interfaces; od is the call of
\* analyze_specific_symbol it belongs to, if any.
NoPersist ==
    [pc |-> "idle", result |-> NoResult, upserts |-> 0, created |-> 0,
     broadcast |-> 0, create_raised |-> FALSE, passed |-> NoSignal,
     od |-> NoOnDemand]

\* TradingConfig and the test-mode switches of api.web_api.
DefaultConfig ==
    [scan_interval_seconds |-> 30, test_mode |-> FALSE, aggressive |-> FALSE,
     force_signals |-> FALSE]

\* The worker after AnalysisWorker.__init__, under a configuration.
WorkerInit(cfg) ==
    /\ is_running = FALSE
    /\ config = cfg
    /\ loop = [s \in Starters |-> IdleLoop]
    /\ analysis = [s \in Starters |-> [a \in Assets |-> NoAnalysis]]
    /\ stopper = IdleStop
    /\ analysis_stats = [total |-> 0, successful |-> 0, failed |-> 0, signals |-> 0]
    /\ coordinator = [registered |-> FALSE]
    /\ starts = 0
    /\ pcall = NoPersist

\* --------------------------------------------------- the rate limiter
\* while timestamps and current_time - timestamps[0] > window: popleft()
RECURSIVE Evict(_, _)
Evict(timestamps, current_time) ==
    IF timestamps # <<>> /\ current_time - Head(timestamps) > rate_limit_window
    THEN Evict(Tail(timestamps), current_time)
    ELSE timestamps

\* len(timestamps) >= limit * window / 10, the window in seconds; both sides
\* are multiplied by 200 (limit doubled, window in ticks).
LimitReached(timestamps, endpoint) ==
    200 * Len(timestamps) >= RateLimitTwice(endpoint) * rate_limit_window

\* wait_time = window - (current_time - oldest_timestamp) + 0.1
WaitTime(timestamps, current_time) ==
    rate_limit_window - (current_time - Head(timestamps)) + WaitMargin

\* _check_rate_limit finds the window full and sleeps.
MustWait(endpoint) ==
    LET timestamps == Evict(request_timestamps[endpoint], now)
    IN  LimitReached(timestamps, endpoint) /\ WaitTime(timestamps, now) > 0

\* The deques after the eviction that precedes the sleep.
Evicted(endpoint) ==
    [request_timestamps EXCEPT ![endpoint] = Evict(@, now)]

\* Recorded with the request dropped instead of appended.
Recorded_dropped(endpoint) ==
    [request_timestamps EXCEPT ![endpoint] = Evict(@, now)]

\* Recorded with appendleft: the request is put at the head.
Recorded_appendleft(endpoint) ==
    [request_timestamps EXCEPT ![endpoint] = <<now>> \o Evict(@, now)]

\* Recorded with the request appended twice.
Recorded_twice(endpoint) ==
    [request_timestamps EXCEPT ![endpoint] = Append(Append(Evict(@, now), now), now)]

\* The deques after eviction and timestamps.append(current_time).
Recorded(endpoint) ==
    [request_timestamps EXCEPT ![endpoint] = Append(Evict(@, now), now)]

\* await asyncio.sleep(wait_time)
StartWait(t, endpoint) ==
    [t EXCEPT !.pc = "rl_sleep", !.endpoint = endpoint,
              !.wake_at = now + WaitTime(Evict(request_timestamps[endpoint], now), now),
              !.rl_sleeps = t.rl_sleeps + 1]

\* A coroutine calls _check_rate_limit(endpoint): up to its sleep, or to its
\* end when it does not sleep.
RLCall(p, endpoint) ==
    /\ task[p].pc = "idle"
    /\ IF MustWait(endpoint)
       THEN /\ request_timestamps' = Evicted(endpoint)
            /\ task' = [task EXCEPT ![p] = StartWait(IdleTask, endpoint)]
       ELSE /\ request_timestamps' = Recorded(endpoint)
            /\ task' = [task EXCEPT ![p] =
                   [IdleTask EXCEPT !.pc = "admitted", !.endpoint = endpoint,
                                    !.admissions = 1]]
    /\ UNCHANGED <<now, circuit_breaker, initialized, calls, hist>>
    /\ UNCHANGED worker_vars

\* The sleep of _check_rate_limit is over: evict again, record the request.
RLWake(p) ==
    /\ task[p].pc = "rl_sleep"
    /\ task[p].op = "none"
    /\ TimerDue(p)
    /\ request_timestamps' = Recorded(task[p].endpoint)
    /\ task' = [task EXCEPT ![p].pc = "admitted",
                            ![p].admissions = task[p].admissions + 1]
    /\ UNCHANGED <<now, circuit_breaker, initialized, calls, hist>>
    /\ UNCHANGED worker_vars

\* _check_rate_limit has returned to its caller.
RLReturn(p) ==
    /\ task[p].pc = "admitted"
    /\ task' = [task EXCEPT ![p] = IdleTask]
    /\ UNCHANGED <<now, request_timestamps, circuit_breaker, initialized, calls, hist>>
    /\ UNCHANGED worker_vars

\* The clock advances.
Tick(steps, last) ==
    /\ \E d \in steps : now + d <= last /\ now' = now + d
    /\ UNCHANGED <<request_timestamps, circuit_breaker, initialized, calls, task, hist>>
    /\ UNCHANGED worker_vars

Init ==
    /\ now = 0
    /\ request_timestamps = [e \in Endpoints |-> <<>>]
    /\ circuit_breaker =
          [is_open |-> FALSE, failure_count |-> 0, last_failure_time |-> 0]
    /\ initialized = TRUE
    /\ calls = 0
    /\ task = [p \in Callers |-> IdleTask]
    /\ hist = [streak |-> 0, since_reset |-> -1]
    /\ WorkerInit(DefaultConfig)

\* ---------------------------------------------- rate limiter, concurrent
\* The endpoints the concurrent callers ask admission for, and the clock's steps.
RLEndpoints == {"fetch_orderbook", "fetch_balance"}
RLTickSteps == {50, 101}

NextRL ==
    \/ \E p \in Callers, e \in RLEndpoints : RLCall(p, e)
    \/ \E p \in Callers : RLWake(p)
    \/ \E p \in Callers : RLReturn(p)
    \/ Tick(RLTickSteps, RLMaxTime)

SpecRL == Init /\ [][NextRL]_vars

\* The same callers with time advancing and every coroutine that can run
\* scheduled: the event loop resumes a sleeper whose timer is due and runs a
\* coroutine that is ready.
SpecRLFair ==
    /\ Init
    /\ [][NextRL]_vars
    /\ WF_vars(Tick(RLTickSteps, RLMaxTime))
    /\ \A p \in Callers : WF_vars(RLWake(p)) /\ WF_vars(RLReturn(p))

\* ---------------------------------------------- rate limiter, one caller
\* One caller asks for one admission after the other, on endpoints of every
\* kind of budget: a fraction below one (fetch_markets, 0.5), a fraction
\* above one (fetch_ticker, 1.5) and whole numbers (fetch_orderbook, 1;
\* fetch_balance, 2).
SoloCallers == {"t1"}
SoloEndpoints ==
    {"fetch_markets", "fetch_ticker", "fetch_orderbook", "fetch_balance"}

NextRLSolo ==
    \/ \E p \in SoloCallers, e \in SoloEndpoints : RLCall(p, e)
    \/ \E p \in SoloCallers : RLWake(p)
    \/ \E p \in SoloCallers : RLReturn(p)
    \/ Tick(RLTickSteps, RLMaxTime)

SpecRLSolo == Init /\ [][NextRLSolo]_vars

\* ------------------------------------------------ the circuit breaker
\* RecoveryElapsed with >= for >: recovery already at exactly recovery_time.
RecoveryElapsed_inclusive(cb, current_time) ==
    current_time - cb.last_failure_time >= recovery_time

\* current_time - cb['last_failure_time'] > cb['recovery_time']
RecoveryElapsed(cb, current_time) ==
    current_time - cb.last_failure_time > recovery_time

\* _check_circuit_breaker raises RateLimitError("Circuit breaker open ...").
BreakerRejects(cb, current_time) ==
    cb.is_open /\ ~RecoveryElapsed(cb, current_time)

\* check_circuit_breaker without the reset of failure_count.
check_circuit_breaker_keeps_count(cb, current_time) ==
    IF cb.is_open /\ RecoveryElapsed(cb, current_time)
    THEN [cb EXCEPT !.is_open = FALSE]
    ELSE cb

\* _check_circuit_breaker: the breaker it leaves behind.
check_circuit_breaker(cb, current_time) ==
    IF cb.is_open /\ RecoveryElapsed(cb, current_time)
    THEN [cb EXCEPT !.is_open = FALSE, !.failure_count = 0]
    ELSE cb

\* record_success as an instant reset of the count.
record_success_resets(cb) ==
    [cb EXCEPT !.failure_count = 0]

\* record_success without the test and the max(0, ...): the count goes
\* below 0.
record_success_unclamped(cb) ==
    [cb EXCEPT !.failure_count = cb.failure_count - 1]

\* _record_success
record_success(cb) ==
    IF cb.failure_count > 0
    THEN [cb EXCEPT !.failure_count =
              IF cb.failure_count - 1 > 0 THEN cb.failure_count - 1 ELSE 0]
    ELSE cb

\* record_failure with > for >=: the breaker opens one failure late.
record_failure_late(cb, current_time) ==
    LET count == cb.failure_count + 1
    IN  [is_open |-> IF count > failure_threshold THEN TRUE ELSE cb.is_open,
         failure_count |-> count,
         last_failure_time |-> current_time]

\* _record_failure
record_failure(cb, current_time) ==
    LET count == cb.failure_count + 1
    IN  [is_open |-> IF count >= failure_threshold THEN TRUE ELSE cb.is_open,
         failure_count |-> count,
         last_failure_time |-> current_time]

\* The history after a step that takes the breaker from cb to cb2; event is
\* "failure" for a _record_failure, "success" for a _record_success.
HistStep(h, cb, cb2, event) ==
    [streak |->
        IF ~cb2.is_open /\ cb2.failure_count = 0 THEN 0
        ELSE IF event = "failure" /\ h.streak >= 0 THEN h.streak + 1
        ELSE IF event = "success" THEN -1
        ELSE h.streak,
     since_reset |->
        IF event = "check" /\ cb.is_open /\ ~cb2.is_open THEN 0
        ELSE IF event = "failure" /\ h.since_reset >= 0
                                  /\ h.since_reset < failure_threshold
             THEN h.since_reset + 1
        ELSE h.since_reset]

HistAfter(cb, cb2, event) == HistStep(hist, cb, cb2, event)

\* ------------------------------------------------- the retry executor
\* What the awaited exchange call can do: return, or raise
\* ccxt.RateLimitExceeded, another ccxt.NetworkError, a ccxt.ExchangeError, or
\* any other Exception.
Outcomes == {"ok", "ratelimit", "network", "exchange", "other"}

\* RateLimitBackoff with the base of the network backoff.
RateLimitBackoff_base2(delay_factor, attempt) ==
    delay_factor * (2 ^ attempt) + (attempt * 5)

\* delay_factor * (3 ** attempt) + (attempt * 5), in seconds
RateLimitBackoff(delay_factor, attempt) ==
    delay_factor * (3 ^ attempt) + (attempt * 5)

\* RetryBackoff without the exponential growth.
RetryBackoff_flat(delay_factor, attempt) ==
    delay_factor

\* delay_factor * (2 ** attempt), in seconds
RetryBackoff(delay_factor, attempt) ==
    delay_factor * (2 ^ attempt)

\* The exception a public operation's "except Exception" turns any failure of
\* its try block into; a direct call of _execute_with_retry has op "none";
\* _test_connection turns every failure of its public probe into BingXError.
WrapError(op) ==
    IF op \in {"fetch_markets", "fetch_ticker", "fetch_ohlcv", "fetch_orderbook"}
    THEN "MarketDataError"
    ELSE IF op = "initialize" THEN "BingXError"
    ELSE "TradingAPIError"

\* The call ends by raising err out of _execute_with_retry.
Raise(t, err, reason) ==
    [t EXCEPT !.pc = "done",
              !.raised = IF t.op = "none" THEN err ELSE WrapError(t.op),
              !.inner = err,
              !.reason = reason]

\* await asyncio.sleep(delay) inside the retry loop.
Backoff(t, delay) ==
    [t EXCEPT !.pc = "backoff", !.wake_at = now + 10 * delay,
              !.n_sleeps = t.n_sleeps + 1, !.last_sleep = delay]

\* result = func(*args): one invocation of the exchange operation.
Invoke(t) ==
    [t EXCEPT !.pc = "awaiting", !.invoked = t.invoked + 1]

\* _execute_with_retry from its entry to the first invocation, or to the
\* breaker's rejection.
EnterExecutor(p, t, max_retries, delay_factor) ==
    LET t0 == [t EXCEPT !.max_retries = max_retries,
                        !.delay_factor = delay_factor,
                        !.executor_calls = t.executor_calls + 1,
                        !.blocked_at_start =
                            /\ circuit_breaker.is_open
                            /\ now - circuit_breaker.last_failure_time
                                   <= recovery_time]
    IN  IF BreakerRejects(circuit_breaker, now)
        THEN /\ task' = [task EXCEPT ![p] =
                             Raise(t0, "RateLimitError", "circuit_open")]
             /\ UNCHANGED <<circuit_breaker, hist>>
        ELSE /\ circuit_breaker' = check_circuit_breaker(circuit_breaker, now)
             /\ hist' = HistAfter(circuit_breaker, circuit_breaker', "check")
             /\ task' = [task EXCEPT ![p] = Invoke(t0)]

\* if attempt == max_retries - 1
LastAttempt(t) == t.attempt = t.max_retries - 1

\* The attempt returned: self._record_success(); return result
OnSuccess(t) ==
    [t EXCEPT !.pc = "done", !.reason = "returned"]

\* except ccxt.RateLimitExceeded
OnRateLimitExceeded(t) ==
    IF LastAttempt(t) THEN Raise(t, "RateLimitError", "exhausted")
    ELSE Backoff(t, RateLimitBackoff(t.delay_factor, t.attempt))

\* except ccxt.NetworkError
OnNetworkError(t) ==
    IF LastAttempt(t) THEN Raise(t, "BingXError", "network")
    ELSE Backoff(t, RetryBackoff(t.delay_factor, t.attempt))

\* OnExchangeError retried like a network error.
OnExchangeError_retried(t) ==
    IF LastAttempt(t) THEN Raise(t, "BingXError", "exchange")
    ELSE Backoff(t, RetryBackoff(t.delay_factor, t.attempt))

\* except ccxt.ExchangeError
OnExchangeError(t) ==
    Raise(t, "BingXError", "exchange")

\* except Exception
OnUnexpectedError(t) ==
    IF LastAttempt(t) THEN Raise(t, "BingXError", "unexpected")
    ELSE Backoff(t, RetryBackoff(t.delay_factor, t.attempt))

\* The success path and the except clauses of one attempt.
AfterAttempt(t, outcome) ==
    LET t1 == [t EXCEPT !.last_outcome = outcome,
                        !.uniform = IF t.uniform \in {"none", outcome}
                                    THEN outcome ELSE "mixed"]
    IN  CASE outcome = "ok"        -> OnSuccess(t1)
          [] outcome = "ratelimit" -> OnRateLimitExceeded(t1)
          [] outcome = "network"   -> OnNetworkError(t1)
          [] outcome = "exchange"  -> OnExchangeError(t1)
          [] OTHER                 -> OnUnexpectedError(t1)

\* BreakerAfterAttempt with _record_failure in the generic clause too.
BreakerAfterAttempt_generic_feeds(cb, outcome) ==
    CASE outcome = "ok"        -> record_success(cb)
      [] outcome = "ratelimit" -> record_failure(cb, now)
      [] outcome = "other"     -> record_failure(cb, now)
      [] OTHER                 -> cb

\* What one attempt's outcome does to the breaker: _record_success on the
\* success path, _record_failure in the RateLimitExceeded clause only.
BreakerAfterAttempt(cb, outcome) ==
    CASE outcome = "ok"        -> record_success(cb)
      [] outcome = "ratelimit" -> record_failure(cb, now)
      [] OTHER                 -> cb

\* A coroutine calls _execute_with_retry(func, max_retries, delay_factor).
ExecCall(p, max_retries, delay_factor) ==
    /\ task[p].pc = "idle"
    /\ EnterExecutor(p, IdleTask, max_retries, delay_factor)
    /\ UNCHANGED <<now, request_timestamps, initialized, calls>>
    /\ UNCHANGED worker_vars

\* The awaited exchange call of the current attempt ends with an outcome.
ExecComplete(p, outcome) ==
    /\ task[p].pc = "awaiting"
    /\ task[p].op = "none"
    /\ task' = [task EXCEPT ![p] = AfterAttempt(task[p], outcome)]
    /\ circuit_breaker' = BreakerAfterAttempt(circuit_breaker, outcome)
    /\ hist' = HistAfter(circuit_breaker, circuit_breaker',
                   IF circuit_breaker'.failure_count > circuit_breaker.failure_count
                   THEN "failure"
                   ELSE IF outcome = "ok" THEN "success" ELSE "none")
    /\ UNCHANGED <<now, request_timestamps, initialized, calls>>
    /\ UNCHANGED worker_vars

\* The backoff sleep is over: the loop's next attempt invokes the operation.
ExecWake(p) ==
    /\ task[p].pc = "backoff"
    /\ TimerDue(p)
    /\ task' = [task EXCEPT ![p] =
                   Invoke([task[p] EXCEPT !.attempt = task[p].attempt + 1])]
    /\ UNCHANGED <<now, request_timestamps, circuit_breaker, initialized, calls, hist>>
    /\ UNCHANGED worker_vars

\* The call has returned or raised to its caller.
ExecReturn(p) ==
    /\ task[p].pc = "done"
    /\ task' = [task EXCEPT ![p] = IdleTask]
    /\ UNCHANGED <<now, request_timestamps, circuit_breaker, initialized, calls, hist>>
    /\ UNCHANGED worker_vars

\* ----------------------------------------------- the public operations
Operations ==
    {"fetch_markets", "fetch_ticker", "fetch_ohlcv", "fetch_orderbook",
     "fetch_balance", "create_market_order", "create_limit_order",
     "create_stop_loss_order", "cancel_order", "fetch_order",
     "fetch_open_orders"}

\* The key each operation passes to _check_rate_limit.
EndpointOf(op) ==
    CASE op \in {"create_market_order", "create_limit_order",
                 "create_stop_loss_order"} -> "create_order"
      [] op = "fetch_order" -> "fetch_order_status"
      [] OTHER -> op

\* The arguments each operation takes.
TakesSymbol(op) == op \notin {"fetch_markets", "fetch_balance"}
TakesSide(op) ==
    op \in {"create_market_order", "create_limit_order", "create_stop_loss_order"}
TakesAmount(op) == TakesSide(op)
TakesPrice(op) == op \in {"create_limit_order", "create_stop_loss_order"}
TakesTimeframe(op) == op = "fetch_ohlcv"

\* The calls a caller can make: every combination of good and bad arguments;
\* fetch_open_orders alone may be called without a symbol.
ArgsOf(op) ==
    {a \in [symbol : {"ok", "bad", "absent", "na"}, side : {"ok", "bad", "na"},
            amount : {"ok", "bad", "na"}, price : {"ok", "bad", "na"},
            timeframe : {"ok", "bad", "na"}] :
        /\ (a.symbol = "na") <=> ~TakesSymbol(op)
        /\ a.symbol = "absent" => op = "fetch_open_orders"
        /\ (a.side = "na") <=> ~TakesSide(op)
        /\ (a.amount = "na") <=> ~TakesAmount(op)
        /\ (a.price = "na") <=> ~TakesPrice(op)
        /\ (a.timeframe = "na") <=> ~TakesTimeframe(op)}

\* FailedValidation without the price check.
FailedValidation_no_price(op, args) ==
    IF TakesSymbol(op) /\ args.symbol = "bad" THEN "symbol"
    ELSE IF TakesTimeframe(op) /\ args.timeframe = "bad" THEN "timeframe"
    ELSE IF TakesSide(op) /\ args.side = "bad" THEN "side"
    ELSE IF TakesAmount(op) /\ args.amount = "bad" THEN "amount"
    ELSE "none"

\* The checks between _check_rate_limit and the try block, in the code's
\* order: the argument whose check raises ValidationError, or "none".
\* fetch_open_orders checks its symbol only when one is given.
FailedValidation(op, args) ==
    IF TakesSymbol(op) /\ args.symbol = "bad" THEN "symbol"
    ELSE IF TakesTimeframe(op) /\ args.timeframe = "bad" THEN "timeframe"
    ELSE IF TakesSide(op) /\ args.side = "bad" THEN "side"
    ELSE IF TakesAmount(op) /\ args.amount = "bad" THEN "amount"
    ELSE IF TakesPrice(op) /\ args.price = "bad" THEN "price"
    ELSE "none"

\* A symbol that passes Validator.is_valid_symbol, character groups in order.
PublicSymbol == <<"BTC", "/", "USDT">>

\* str.replace(old, new) on a symbol.
Replace(symbol, old, new) ==
    [i \in 1..Len(symbol) |-> IF symbol[i] = old THEN new ELSE symbol[i]]

\* The symbol argument an operation passes to _execute_with_retry:
\* fetch_ticker passes its symbol as it is, the other operations pass
\* symbol.replace('/', '-'); fetch_open_orders passes None without a symbol.
WireSymbol(op, args) ==
    IF ~TakesSymbol(op) \/ args.symbol # "ok" THEN <<>>
    ELSE IF op = "fetch_ticker" THEN PublicSymbol
    ELSE Replace(PublicSymbol, "/", "-")

\* A public operation from the return of _check_rate_limit on: the argument
\* checks, then the try block's _execute_with_retry with its defaults.
ContinueOperation(p, t) ==
    IF FailedValidation(t.op, t.args) # "none"
    THEN /\ task' = [task EXCEPT ![p] =
                [t EXCEPT !.pc = "done", !.raised = "ValidationError",
                          !.inner = "ValidationError",
                          !.reason = FailedValidation(t.op, t.args)]]
         /\ UNCHANGED <<circuit_breaker, hist>>
    ELSE EnterExecutor(p, [t EXCEPT !.wire = WireSymbol(t.op, t.args)],
                       default_max_retries, default_delay_factor)

\* NotInitialized when _check_initialized is left out.
NotInitialized_unchecked(flag) == FALSE

\* _check_initialized raises BingXError.
NotInitialized(flag) == ~flag

\* A coroutine calls a public operation: _check_initialized, then
\* _check_rate_limit up to its sleep or, when it does not sleep, on to the
\* argument checks and the first invocation.
OpCall(p, op, args) ==
    LET t == [IdleTask EXCEPT !.op = op, !.args = args,
                              !.endpoint = EndpointOf(op)]
    IN  /\ task[p].pc = "idle"
        /\ calls < ClientMaxCalls
        /\ IF NotInitialized(initialized)
           THEN /\ task' = [task EXCEPT ![p] =
                       [t EXCEPT !.pc = "done", !.raised = "BingXError",
                                 !.inner = "BingXError",
                                 !.reason = "not_initialized"]]
                /\ UNCHANGED <<request_timestamps, circuit_breaker, hist>>
           ELSE IF MustWait(EndpointOf(op))
           THEN /\ request_timestamps' = Evicted(EndpointOf(op))
                /\ task' = [task EXCEPT ![p] = StartWait(t, EndpointOf(op))]
                /\ UNCHANGED <<circuit_breaker, hist>>
           ELSE /\ request_timestamps' = Recorded(EndpointOf(op))
                /\ ContinueOperation(p, [t EXCEPT !.pc = "admitted",
                                                  !.admissions = 1])
        /\ calls' = calls + 1
        /\ UNCHANGED <<now, initialized>>
        /\ UNCHANGED worker_vars

\* The limiter's sleep inside a public operation is over: record the request
\* and go on with the operation.
OpAdmitted(p) ==
    /\ task[p].pc = "rl_sleep"
    /\ task[p].op # "none"
    /\ TimerDue(p)
    /\ request_timestamps' = Recorded(task[p].endpoint)
    /\ ContinueOperation(p, [task[p] EXCEPT !.pc = "admitted",
                                            !.admissions = task[p].admissions + 1])
    /\ UNCHANGED <<now, initialized, calls>>
    /\ UNCHANGED worker_vars

\* The exchange call of a public operation's current attempt ends; a returned
\* response is then normalised inside the try block, which raises when the
\* response lacks what the operation reads from it.
OpComplete(p, outcome, response_ok) ==
    LET t == AfterAttempt(task[p], outcome)
    IN  /\ task[p].pc = "awaiting"
        /\ task[p].op \notin {"none", "initialize"}
        /\ outcome # "ok" => response_ok
        /\ task' = [task EXCEPT ![p] =
               IF outcome = "ok" /\ ~response_ok
               THEN [t EXCEPT !.raised = WrapError(t.op),
                              !.inner = "Exception", !.reason = "normalize"]
               ELSE t]
        /\ circuit_breaker' = BreakerAfterAttempt(circuit_breaker, outcome)
        /\ hist' = HistAfter(circuit_breaker, circuit_breaker',
                       IF circuit_breaker'.failure_count
                              > circuit_breaker.failure_count
                       THEN "failure"
                       ELSE IF outcome = "ok" THEN "success" ELSE "none")
        /\ UNCHANGED <<now, request_timestamps, initialized, calls>>
        /\ UNCHANGED worker_vars

\* close(): self.exchange = None; self._initialized = False
Close ==
    /\ initialized
    /\ initialized' = FALSE
    /\ UNCHANGED <<now, request_timestamps, circuit_breaker, calls, task, hist>>
    /\ UNCHANGED worker_vars

\* ------------------------------------------------------- initialize()
\* A coroutine calls initialize(): without credentials in the settings it
\* returns False at once; else _test_connection begins its public probe,
\* fetch_markets through the retry executor, which the breaker may reject.
\* No _check_rate_limit precedes the probes.
InitializeCall(p) ==
    LET t == [IdleTask EXCEPT !.op = "initialize"]
    IN  /\ task[p].pc = "idle"
        /\ calls < ClientMaxCalls
        /\ calls' = calls + 1
        /\ IF ~config.credentials
           THEN /\ task' = [task EXCEPT ![p] =
                       [t EXCEPT !.pc = "done", !.raised = "ValueError",
                                 !.inner = "ValueError",
                                 !.reason = "credentials"]]
                /\ UNCHANGED <<circuit_breaker, hist>>
           ELSE EnterExecutor(p, [t EXCEPT !.probe = "markets"],
                              default_max_retries, default_delay_factor)
        /\ UNCHANGED <<now, request_timestamps, initialized>>
        /\ UNCHANGED worker_vars

\* initialize() returns True: self._initialized = True.
InitializeSucceeds(t) ==
    [t EXCEPT !.pc = "done", !.raised = "none", !.reason = "returned"]

\* The public probe has returned a non-empty list outside sandbox mode: the
\* private probe, fetch_balance through the retry executor, begins on breaker
\* cb; when the breaker rejects it the failure is logged and initialize()
\* returns True.
BeginBalanceProbe(p, t, cb) ==
    LET t1 == [t EXCEPT !.probe = "balance", !.attempt = 0,
                        !.executor_calls = t.executor_calls + 1]
        cb2 == check_circuit_breaker(cb, now)
        h == HistAfter(circuit_breaker, cb, "success")
    IN  IF BreakerRejects(cb, now)
        THEN /\ task' = [task EXCEPT ![p] =
                    InitializeSucceeds([t1 EXCEPT !.inner = "RateLimitError"])]
             /\ circuit_breaker' = cb
             /\ hist' = h
             /\ initialized' = TRUE
        ELSE /\ task' = [task EXCEPT ![p] = Invoke(t1)]
             /\ circuit_breaker' = cb2
             /\ hist' = HistStep(h, cb, cb2, "check")
             /\ UNCHANGED initialized

\* The exchange call of the probe in progress ends; nonempty tells whether a
\* returned fetch_markets response holds any market. The public probe's
\* failure, or its empty list, makes _test_connection raise BingXError and
\* initialize() return False; the private probe's outcome is only logged.
InitializeComplete(p, outcome, nonempty) ==
    LET t == AfterAttempt(task[p], outcome)
        cb == BreakerAfterAttempt(circuit_breaker, outcome)
        event == IF cb.failure_count > circuit_breaker.failure_count
                 THEN "failure"
                 ELSE IF outcome = "ok" THEN "success" ELSE "none"
    IN  /\ task[p].pc = "awaiting"
        /\ task[p].op = "initialize"
        /\ IF t.pc = "backoff"
           THEN /\ task' = [task EXCEPT ![p] = t]
                /\ circuit_breaker' = cb
                /\ hist' = HistAfter(circuit_breaker, cb, event)
                /\ UNCHANGED initialized
           ELSE IF t.probe = "balance"
           THEN /\ task' = [task EXCEPT ![p] = InitializeSucceeds(t)]
                /\ circuit_breaker' = cb
                /\ hist' = HistAfter(circuit_breaker, cb, event)
                /\ initialized' = TRUE
           ELSE IF outcome # "ok"
           THEN /\ task' = [task EXCEPT ![p] = [t EXCEPT !.markets = "failed"]]
                /\ circuit_breaker' = cb
                /\ hist' = HistAfter(circuit_breaker, cb, event)
                /\ UNCHANGED initialized
           ELSE IF ~nonempty
           THEN /\ task' = [task EXCEPT ![p] =
                       [t EXCEPT !.markets = "empty", !.raised = "BingXError",
                                 !.inner = "BingXError",
                                 !.reason = "no_markets"]]
                /\ circuit_breaker' = cb
                /\ hist' = HistAfter(circuit_breaker, cb, event)
                /\ UNCHANGED initialized
           ELSE IF config.sandbox
           THEN /\ task' = [task EXCEPT ![p] =
                       InitializeSucceeds([t EXCEPT !.markets = "nonempty"])]
                /\ circuit_breaker' = cb
                /\ hist' = HistAfter(circuit_breaker, cb, event)
                /\ initialized' = TRUE
           ELSE BeginBalanceProbe(p, [t EXCEPT !.markets = "nonempty"], cb)
        /\ UNCHANGED <<now, request_timestamps, calls>>
        /\ UNCHANGED worker_vars

\* ------------------------------------------- retry executor, one caller
\* The arguments the caller passes (the defaults among them), the clock's steps.
MaxRetriesIn == {1, 3, default_max_retries}
DelayFactorIn == {1, default_delay_factor}
ExecTickSteps == {1000, 3001}
ExecCallers == {"t1"}

NextExec ==
    \/ \E p \in ExecCallers, m \in MaxRetriesIn, d \in DelayFactorIn :
            ExecCall(p, m, d)
    \/ \E p \in ExecCallers, o \in Outcomes : ExecComplete(p, o)
    \/ \E p \in ExecCallers : ExecWake(p)
    \/ \E p \in ExecCallers : ExecReturn(p)
    \/ Tick(ExecTickSteps, ExecMaxTime)

SpecExec == Init /\ [][NextExec]_vars

\* The same caller with time advancing, every awaited exchange call ending
\* and the event loop resuming the sleeper whose timer is due.
SpecExecFair ==
    /\ Init
    /\ [][NextExec]_vars
    /\ WF_vars(Tick(ExecTickSteps, ExecMaxTime))
    /\ \A p \in ExecCallers :
          /\ WF_vars(\E o \in Outcomes : ExecComplete(p, o))
          /\ WF_vars(ExecWake(p))

\* ----------------------------------------- retry executor, two callers
PairMaxRetriesIn == {1, 3}
PairDelayFactorIn == {default_delay_factor}

NextExecPair ==
    \/ \E p \in Callers, m \in PairMaxRetriesIn, d \in PairDelayFactorIn :
            ExecCall(p, m, d)
    \/ \E p \in Callers, o \in Outcomes : ExecComplete(p, o)
    \/ \E p \in Callers : ExecWake(p)
    \/ \E p \in Callers : ExecReturn(p)
    \/ Tick(ExecTickSteps, PairMaxTime)

SpecExecPair == Init /\ [][NextExecPair]_vars

\* ------------------------------------------------ the client, one caller
ClientCallers == {"t1"}
ClientTickSteps == {1000}

NextClient ==
    \/ \E p \in ClientCallers, op \in Operations :
            \E args \in ArgsOf(op) : OpCall(p, op, args)
    \/ \E p \in ClientCallers : OpAdmitted(p)
    \/ \E p \in ClientCallers, o \in Outcomes, r \in BOOLEAN : OpComplete(p, o, r)
    \/ \E p \in ClientCallers : ExecWake(p)
    \/ \E p \in ClientCallers : ExecReturn(p)
    \/ Close
    \/ Tick(ClientTickSteps, ClientMaxTime)

SpecClient == Init /\ [][NextClient]_vars

\* ------------------------------------- a fresh client, one caller
\* The client as __init__ leaves it; the caller initializes it, calls the
\* public operations with valid arguments, and closes it. The settings of
\* the run say whether both API credentials are set (BINGX_API_KEY and
\* BINGX_SECRET_KEY) and whether the exchange is a sandbox (BINGX_TESTNET or
\* BINGX_SANDBOX).
ClientSettings(credentials, sandbox) ==
    [scan_interval_seconds |-> DefaultConfig.scan_interval_seconds,
     test_mode |-> FALSE, aggressive |-> FALSE, force_signals |-> FALSE,
     credentials |-> credentials, sandbox |-> sandbox]

InitFresh ==
    /\ now = 0
    /\ request_timestamps = [e \in Endpoints |-> <<>>]
    /\ circuit_breaker =
          [is_open |-> FALSE, failure_count |-> 0, last_failure_time |-> 0]
    /\ initialized = FALSE
    /\ calls = 0
    /\ task = [p \in Callers |-> IdleTask]
    /\ hist = [streak |-> 0, since_reset |-> -1]
    /\ \E c \in BOOLEAN, sb \in BOOLEAN : WorkerInit(ClientSettings(c, sb))

\* The clock's step: longer than the longest backoff of the retry executor.
FreshTickSteps == {700}

\* The valid arguments of an operation.
ValidArgs(op) == CHOOSE a \in ArgsOf(op) : \A f \in DOMAIN a : a[f] \in {"ok", "na"}

NextFresh ==
    \/ \E p \in ClientCallers : InitializeCall(p)
    \/ \E p \in ClientCallers, o \in Outcomes, n \in BOOLEAN :
            InitializeComplete(p, o, n)
    \/ \E p \in ClientCallers, op \in Operations : OpCall(p, op, ValidArgs(op))
    \/ \E p \in ClientCallers, o \in Outcomes, r \in BOOLEAN : OpComplete(p, o, r)
    \/ \E p \in ClientCallers : ExecWake(p)
    \/ \E p \in ClientCallers : ExecReturn(p)
    \/ Close
    \/ Tick(FreshTickSteps, FreshMaxTime)

SpecFresh == InitFresh /\ [][NextFresh]_vars

\* ------------------------------------------ _persist_analysis_result
Min(a, b) == IF a < b THEN a ELSE b
Max(a, b) == IF a > b THEN a ELSE b

\* persistence_threshold: 0.3, and 0.1 when is_test_mode_active()
Threshold(cfg) ==
    IF cfg.test_mode THEN TestPersistenceThreshold ELSE PersistenceThreshold

\* In test mode a neutral signal becomes BUY or SELL at confidence 0.8 when
\* force_signals is set and the spot indicators hold mm1 and center.
Forced(result, cfg) ==
    IF /\ cfg.test_mode
       /\ result.signal.type = "NEUTRAL"
       /\ cfg.force_signals
       /\ result.position # "none"
    THEN [type |-> IF result.position = "above" THEN "BUY" ELSE "SELL",
          confidence |-> ForcedConfidence]
    ELSE result.signal

\* In test mode a positive confidence becomes min(0.95, confidence + 0.3).
Boosted(signal, cfg) ==
    IF cfg.test_mode /\ signal.confidence > 0
    THEN [signal EXCEPT !.confidence = Min(BoostCap, signal.confidence + ConfidenceBoost)]
    ELSE signal

\* signal_data as the persistence test reads it.
AdjustedSignal(result, cfg) == Boosted(Forced(result, cfg), cfg)

\* Persistable with > for >=: a signal exactly at the threshold is dropped.
Persistable_strict(signal, cfg) ==
    signal.type # "NEUTRAL" /\ signal.confidence > Threshold(cfg)

\* signal_type != NEUTRAL and confidence >= persistence_threshold
Persistable(signal, cfg) ==
    signal.type # "NEUTRAL" /\ signal.confidence >= Threshold(cfg)

\* The results a caller can hand to _persist_analysis_result.
ConfidenceIn == {0, 5, 10, 29, 30, 70, 100}
SignalsIn == [type : {"NEUTRAL", "BUY", "SELL"}, confidence : ConfidenceIn]
ResultsIn ==
    [asset : {1}, error : {FALSE}, signal : SignalsIn,
     position : {"none", "above", "below"}, indicators : {0, Timeframes},
     sub_errors : {{}}]

\* _persist_analysis_result from its call to its first await or its end:
\* the indicator upserts, then create_signal and, when that returned, the
\* call of broadcast, which is awaited.
PersistBegin(result, create_ok) ==
    LET signal == AdjustedSignal(result, config)
        p0 == [NoPersist EXCEPT !.result = result, !.upserts = result.indicators]
    IN  IF ~Persistable(signal, config) THEN [p0 EXCEPT !.pc = "done"]
        ELSE IF ~create_ok
        THEN [p0 EXCEPT !.pc = "done", !.created = 1, !.passed = signal,
                        !.create_raised = TRUE]
        ELSE [p0 EXCEPT !.pc = "broadcast", !.created = 1,
                        !.passed = signal, !.broadcast = 1]

\* _persist_analysis_result is called on its own.
PersistCall(result, create_ok) ==
    /\ pcall.pc = "idle"
    /\ pcall' = PersistBegin(result, create_ok)
    /\ UNCHANGED <<now, initialized, client_vars, is_running, config, loop,
                   analysis, stopper, analysis_stats, coordinator, starts>>

\* connection_manager.broadcast returns or raises; either way the call ends.
PersistBroadcastDone ==
    /\ pcall.pc = "broadcast"
    /\ pcall' = [pcall EXCEPT !.pc = "done"]
    /\ UNCHANGED <<now, initialized, client_vars, is_running, config, loop,
                   analysis, stopper, analysis_stats, coordinator, starts>>

\* _persist_analysis_result has returned to its caller.
PersistReturn ==
    /\ pcall.pc = "done"
    /\ pcall' = NoPersist
    /\ UNCHANGED <<now, initialized, client_vars, is_running, config, loop,
                   analysis, stopper, analysis_stats, coordinator, starts>>

\* The test-mode switches a run can be under.
PersistConfigIn ==
    {c \in [scan_interval_seconds : {30}, test_mode : BOOLEAN, aggressive : {FALSE},
            force_signals : BOOLEAN] : c.force_signals => c.test_mode}

InitPersist ==
    /\ now = 0
    /\ request_timestamps = [e \in Endpoints |-> <<>>]
    /\ circuit_breaker =
          [is_open |-> FALSE, failure_count |-> 0, last_failure_time |-> 0]
    /\ initialized = TRUE
    /\ calls = 0
    /\ task = [p \in Callers |-> IdleTask]
    /\ hist = [streak |-> 0, since_reset |-> -1]
    /\ \E cfg \in PersistConfigIn : WorkerInit(cfg)

NextPersist ==
    \/ \E result \in ResultsIn, create_ok \in BOOLEAN : PersistCall(result, create_ok)
    \/ PersistBroadcastDone
    \/ PersistReturn

SpecPersist == InitPersist /\ [][NextPersist]_vars

\* ------------------------------------------- the per-asset analyses
\* The computations that follow the fetches, each in a try block of its own.
Computations == {"indicators", "volume", "signal"}

\* What the computations after the fetches give one analysis: the signal (the
\* neutral one is read when generate_trading_signal raised), the spot
\* indicators' position and the number of non-empty indicator dicts (none
\* when calculate_all_indicators raised), and the computations that raised.
AnalysesIn ==
    {[signal |-> [type |-> "BUY", confidence |-> 70], position |-> "above",
      indicators |-> Timeframes, raised |-> {}],
     [signal |-> NoSignal, position |-> "none", indicators |-> 0,
      raised |-> {}],
     [signal |-> NoSignal, position |-> "none", indicators |-> 0,
      raised |-> Computations]}

\* AnalysisFailure with a computation's exception reaching the outer handler.
AnalysisFailure_unguarded(t, computed) ==
    IF ~t.all_candles THEN "insufficient"
    ELSE IF computed.raised # {} THEN "exception"
    ELSE "none"

\* Why _analyze_single_asset takes its except clause, or "none": the
\* exceptions of the computations are caught by their own handlers.
AnalysisFailure(t, computed) ==
    IF ~t.all_candles THEN "insufficient"
    ELSE "none"

\* AnalysisResult that leaves the 'error' field out of the except clause's dict.
AnalysisResult_untagged(a, failure, computed) ==
    IF failure # "none"
    THEN [NoResult EXCEPT !.asset = a]
    ELSE [asset |-> a, error |-> FALSE, signal |-> computed.signal,
          position |-> computed.position, indicators |-> computed.indicators,
          sub_errors |-> computed.raised]

\* The dict _analyze_single_asset returns.
AnalysisResult(a, failure, computed) ==
    IF failure # "none"
    THEN [NoResult EXCEPT !.asset = a, !.error = TRUE]
    ELSE [asset |-> a, error |-> FALSE, signal |-> computed.signal,
          position |-> computed.position, indicators |-> computed.indicators,
          sub_errors |-> computed.raised]

\* StatsAfter with the failure branch leaving total_analyses alone.
StatsAfter_failure_untotalled(stats, result) ==
    IF result.error
    THEN [stats EXCEPT !.failed = @ + 1]
    ELSE [stats EXCEPT !.total = @ + 1, !.successful = @ + 1,
                       !.signals = IF /\ result.signal.type # "NEUTRAL"
                                      /\ result.signal.confidence >= StatsThreshold
                                   THEN @ + 1 ELSE @]

\* The statistics after one analysis has returned result.
StatsAfter(stats, result) ==
    IF result.error
    THEN [stats EXCEPT !.total = @ + 1, !.failed = @ + 1]
    ELSE [stats EXCEPT !.total = @ + 1, !.successful = @ + 1,
                       !.signals = IF /\ result.signal.type # "NEUTRAL"
                                      /\ result.signal.confidence >= StatsThreshold
                                   THEN @ + 1 ELSE @]

\* The task of asset a after timeframe t.tf gave candles (got) or none: on to
\* the permission request of the next timeframe, or to the computations and
\* the return.
AfterTimeframe(a, t, got, computed) ==
    LET t1 == [t EXCEPT !.all_candles = t.all_candles /\ got, !.permit = 0]
    IN  IF t.tf < Timeframes
        THEN [t1 EXCEPT !.pc = "permission", !.tf = t.tf + 1]
        ELSE [t1 EXCEPT !.pc = "done",
                        !.failure = AnalysisFailure(t1, computed),
                        !.result = AnalysisResult(a, AnalysisFailure(t1, computed),
                                                  computed)]

\* The step of asset a's task under start() call s that ends timeframe tf;
\* ranked tells whether the run keeps the order in which the tasks complete.
EndTimeframe(s, a, got, computed, ranked) ==
    LET t0 == AfterTimeframe(a, analysis[s][a], got, computed)
        finished == {b \in Assets : analysis[s][b].pc = "done"}
        t == IF t0.pc = "done" /\ ranked
             THEN [t0 EXCEPT !.rank = Cardinality(finished) + 1]
             ELSE t0
    IN  /\ analysis' = [analysis EXCEPT ![s][a] = t]
        /\ analysis_stats' =
              IF t.pc = "done" THEN StatsAfter(analysis_stats, t.result)
              ELSE analysis_stats

\* A created task runs for the first time: up to its first permission request.
TaskBegin(s, a) ==
    /\ analysis[s][a].pc = "created"
    /\ analysis' = [analysis EXCEPT ![s][a] =
           [@ EXCEPT !.pc = "permission", !.tf = 1]]
    /\ UNCHANGED <<now, initialized, client_vars, is_running, config, loop,
                   stopper, analysis_stats, coordinator, starts, pcall>>

\* FetchFollows with the fetch made whether or not the request returned.
FetchFollows_always(ok) == TRUE

\* Whether get_candles is called after the permission request: only when
\* the request returned (ok); when it raised, the except clause is next.
FetchFollows(ok) == ok

\* coordinator.request_api_permission returns (the fetch of the timeframe
\* follows) or raises (the timeframe has no candles).
PermissionReturns(s, a, ok, computed, ranked) ==
    /\ analysis[s][a].pc = "permission"
    /\ IF FetchFollows(ok)
       THEN /\ analysis' = [analysis EXCEPT ![s][a] =
                   [@ EXCEPT !.pc = "candles",
                             !.permit = IF ok THEN analysis[s][a].tf ELSE @]]
            /\ UNCHANGED analysis_stats
       ELSE EndTimeframe(s, a, FALSE, computed, ranked)
    /\ UNCHANGED <<now, initialized, client_vars, is_running, config, loop,
                   stopper, coordinator, starts, pcall>>

\* The step in a run that does not keep the order of completion.
PermissionDone(s, a, ok, computed) == PermissionReturns(s, a, ok, computed, FALSE)

\* The same step in a run that keeps the order of completion.
RankedPermissionDone(s, a, ok, computed) ==
    PermissionReturns(s, a, ok, computed, TRUE)

\* market_api.get_candles returns candles (got), or returns none or raises.
CandlesReturn(s, a, got, computed, ranked) ==
    /\ analysis[s][a].pc = "candles"
    /\ EndTimeframe(s, a, got, computed, ranked)
    /\ UNCHANGED <<now, initialized, client_vars, is_running, config, loop,
                   stopper, coordinator, starts, pcall>>

\* The step in a run that does not keep the order of completion.
CandlesDone(s, a, got, computed) == CandlesReturn(s, a, got, computed, FALSE)

\* The same step in a run that keeps the order of completion.
RankedCandlesDone(s, a, got, computed) ==
    CandlesReturn(s, a, got, computed, TRUE)

\* ------------------------------------------------- the cycle loop
\* The lists _get_valid_assets can return: the first n assets, none when the
\* repository has none or the query raised.
AssetListsIn == {[i \in 1..n |-> i] : n \in 0..MaxAssets}

\* The tasks _analyze_all_assets creates, one per asset of the list.
NewTasks(assets) ==
    [a \in Assets |->
        IF \E i \in 1..Len(assets) : assets[i] = a
        THEN [NoAnalysis EXCEPT !.pc = "created"]
        ELSE NoAnalysis]

\* EffectiveInterval with the reduction applied whatever the test mode.
EffectiveInterval_reduced(cfg) ==
    10 * ((cfg.scan_interval_seconds * AggressivePercent) \div 100)

\* base_interval, in ticks: SCAN_INTERVAL_SECONDS, or int(base_interval * 0.3)
\* in aggressive test mode.
EffectiveInterval(cfg) ==
    IF cfg.test_mode /\ cfg.aggressive
    THEN 10 * ((cfg.scan_interval_seconds * AggressivePercent) \div 100)
    ELSE 10 * cfg.scan_interval_seconds

\* SleepTime without the cycle's duration taken off.
SleepTime_full_interval(interval, cycle_duration) ==
    Max(0, interval)

\* sleep_time = max(0, base_interval - cycle_duration)
SleepTime(interval, cycle_duration) ==
    Max(0, interval - cycle_duration)

\* LoopTop with "while True": the loop takes no notice of is_running.
LoopTop_unstoppable(lp, an, running, assets) ==
    LET lp1 == [lp EXCEPT !.cycles = lp.cycles + 1, !.loop_start = now,
                          !.assets = assets, !.results = <<>>,
                          !.idx = 0, !.persist_calls = 0,
                          !.passed = {}, !.ranks = <<>>]
    IN  IF assets = <<>>
        THEN [lp |-> [lp1 EXCEPT !.pc = "sleep", !.ended = "empty",
                                 !.wake_at = now + EmptyAssetsSleep],
              an |-> an]
        ELSE [lp |-> [lp1 EXCEPT !.pc = "gather"], an |-> NewTasks(assets)]

\* The loop of start() call lp, with tasks an, at "while self.is_running":
\* it returns, or starts a cycle and runs up to the sleep that follows an
\* empty asset list or up to the gather over the tasks it created.
LoopTop(lp, an, running, assets) ==
    IF ~running
    THEN [lp |-> [lp EXCEPT !.pc = "returned"], an |-> an]
    ELSE LET lp1 == [lp EXCEPT !.cycles = lp.cycles + 1, !.loop_start = now,
                               !.assets = assets, !.results = <<>>,
                               !.idx = 0, !.persist_calls = 0,
                               !.passed = {}, !.ranks = <<>>]
         IN  IF assets = <<>>
             THEN [lp |-> [lp1 EXCEPT !.pc = "sleep", !.ended = "empty",
                                      !.wake_at = now + EmptyAssetsSleep],
                   an |-> an]
             ELSE [lp |-> [lp1 EXCEPT !.pc = "gather"], an |-> NewTasks(assets)]

\* AfterException with no handler in the loop: the exception leaves it.
AfterException_propagates(lp, an, running, assets) ==
    [lp |-> [lp EXCEPT !.pc = "returned", !.raised = TRUE,
                       !.ended = "exception"],
     an |-> an]

\* The loop's "except Exception": the error is logged and, if the worker is
\* still running, the loop sleeps 30 s; then back to "while self.is_running".
AfterException(lp, an, running, assets) ==
    IF running
    THEN [lp |-> [lp EXCEPT !.pc = "sleep", !.ended = "exception",
                            !.wake_at = now + ErrorSleep],
          an |-> an]
    ELSE LoopTop([lp EXCEPT !.ended = "exception"], an, running, assets)

\* The loop after _process_analysis_results has returned: the duration, the
\* performance log (which raises when ~logged: the loop's handler sleeps 30 s
\* if the worker is still running), the interval and the sleep; with no sleep
\* the loop goes straight on to its next iteration.
CycleEnd(lp, an, running, logged, assets) ==
    LET cycle_duration == now - lp.loop_start
        sleep_time == SleepTime(EffectiveInterval(config), cycle_duration)
        lp1 == [lp EXCEPT !.cycle_duration = cycle_duration]
    IN  IF ~logged
        THEN AfterException(lp1, an, running, assets)
        ELSE IF sleep_time > 0
        THEN [lp |-> [lp1 EXCEPT !.pc = "sleep", !.ended = "normal",
                                 !.wake_at = now + sleep_time],
              an |-> an]
        ELSE LoopTop([lp1 EXCEPT !.ended = "normal"], an, running, assets)

\* NextResult with the first failure ending the loop over the results.
NextResult_aborts(results, i) == Len(results) + 1

\* The result the loop over the results goes on with after
\* _persist_analysis_result has raised for results[i] or has logged a failure
\* of create_signal: the per-result handlers leave the loop running.
NextResult(results, i) == i + 1

\* _process_analysis_results from results[i] on, with made counting the calls
\* of upsert_indicators, create_signal and broadcast made so far in the cycle
\* and passed the results given to _persist_analysis_result so far:
\* error-tagged results are skipped; create_ok[i] tells whether create_signal
\* returns for results[i]. The loop runs to the first awaited broadcast (idx
\* then names its result) or to the end of the list (idx = Len + 1).
RECURSIVE ProcessFrom(_, _, _, _, _)
ProcessFrom(results, i, create_ok, made, passed) ==
    IF i > Len(results) THEN [idx |-> i, calls |-> made, passed |-> passed]
    ELSE IF results[i].error
    THEN ProcessFrom(results, i + 1, create_ok, made, passed)
    ELSE LET upserted == made + results[i].indicators
             given == passed \cup {i}
         IN  IF ~Persistable(AdjustedSignal(results[i], config), config)
             THEN ProcessFrom(results, i + 1, create_ok, upserted, given)
             ELSE IF ~create_ok[i]
             THEN ProcessFrom(results, NextResult(results, i), create_ok,
                              upserted + 1, given)
             ELSE [idx |-> i, calls |-> upserted + 2, passed |-> given]

\* The loop of start() call s goes on persisting from results[i]: up to the
\* next awaited broadcast, or through the end of the cycle.
Persisting(s, lp, an, i, create_ok, logged, assets) ==
    LET done == ProcessFrom(lp.results, i, create_ok, lp.persist_calls,
                            lp.passed)
        lp1 == [lp EXCEPT !.persist_calls = done.calls, !.idx = done.idx,
                          !.passed = done.passed]
        next == IF done.idx <= Len(lp.results)
                THEN [lp |-> [lp1 EXCEPT !.pc = "broadcast"], an |-> an]
                ELSE CycleEnd(lp1, an, is_running, logged, assets)
    IN  /\ loop' = [loop EXCEPT ![s] = next.lp]
        /\ analysis' = [analysis EXCEPT ![s] = next.an]

\* GatherReady as the return of the first task to finish.
GatherReady_first(s) ==
    \E i \in 1..Len(loop[s].assets) : analysis[s][loop[s].assets[i]].pc = "done"

\* asyncio.gather(*tasks) returns: every task of the cycle is done.
GatherReady(s) ==
    \A i \in 1..Len(loop[s].assets) : analysis[s][loop[s].assets[i]].pc = "done"

\* ResultAt with gather's list in the order of completion.
ResultAt_completed(s, i) ==
    LET a == CHOOSE b \in Assets : analysis[s][b].rank = i
    IN  analysis[s][a].result

\* results[i] of asyncio.gather(*tasks): the result of tasks[i], the task
\* created for assets[i].
ResultAt(s, i) == analysis[s][loop[s].assets[i]].result

\* The gather of start() call s returns; _analyze_all_assets builds the result
\* list in the order of the assets and _process_analysis_results begins.
GatherDone(s, create_ok, logged, assets) ==
    /\ loop[s].pc = "gather"
    /\ GatherReady(s)
    /\ Persisting(s,
            [loop[s] EXCEPT !.results =
                [i \in 1..Len(loop[s].assets) |-> ResultAt(s, i)],
                            !.ranks =
                [i \in 1..Len(loop[s].assets) |->
                    analysis[s][loop[s].assets[i]].rank]],
            [a \in Assets |-> NoAnalysis], 1, create_ok, logged, assets)
    /\ UNCHANGED <<now, initialized, client_vars, is_running, config, stopper,
                   analysis_stats, coordinator, starts, pcall>>

\* The awaited broadcast returns or raises; the persistence goes on with the
\* next result.
BroadcastDone(s, create_ok, logged, assets) ==
    /\ loop[s].pc = "broadcast"
    /\ Persisting(s, loop[s], analysis[s],
                  NextResult(loop[s].results, loop[s].idx), create_ok, logged,
                  assets)
    /\ UNCHANGED <<now, initialized, client_vars, is_running, config, stopper,
                   analysis_stats, coordinator, starts, pcall>>

\* One of the loop's sleeps is over: back to "while self.is_running".
SleepDone(s, assets) ==
    LET next == LoopTop(loop[s], analysis[s], is_running, assets)
    IN  /\ loop[s].pc = "sleep"
        /\ now >= loop[s].wake_at
        /\ loop' = [loop EXCEPT ![s] = next.lp]
        /\ analysis' = [analysis EXCEPT ![s] = next.an]
        /\ UNCHANGED <<now, initialized, client_vars, is_running, config,
                       stopper, analysis_stats, coordinator, starts, pcall>>

\* ------------------------------------------------ start() and stop()
\* StartsNow that takes no notice of is_running.
StartsNow_always(running) == TRUE

\* start() goes past its "if self.is_running: return".
StartsNow(running) == ~running

\* The except clause of start() up to its awaited unregister_worker.
StartFailed(s) ==
    /\ is_running' = FALSE
    /\ loop' = [loop EXCEPT ![s].pc = "unregister"]
    /\ UNCHANGED coordinator

\* start() is called: a no-op when the worker is running, else up to the
\* awaited initialize_client().
StartCall(s) ==
    /\ loop[s].pc = "idle"
    /\ starts < MaxStarts
    /\ starts' = starts + 1
    /\ IF StartsNow(is_running)
       THEN /\ is_running' = TRUE
            /\ loop' = [loop EXCEPT ![s] =
                   [IdleLoop EXCEPT !.pc = "init", !.init_calls = 1]]
       ELSE /\ loop' = [loop EXCEPT ![s] =
                   [IdleLoop EXCEPT !.pc = "returned", !.noop = TRUE]]
            /\ UNCHANGED is_running
    /\ UNCHANGED <<now, initialized, client_vars, config, analysis, stopper,
                   analysis_stats, coordinator, pcall>>

\* ExchangeReady when initialize_client()'s result is not looked at.
ExchangeReady_unchecked(result) == TRUE

\* if not await initialize_client(): raise RuntimeError(...)
ExchangeReady(result) == result

\* initialize_client() returns True (the client is initialized; the call of
\* register_worker follows) or False (RuntimeError, the except clause).
InitializeDone(s, result) ==
    /\ loop[s].pc = "init"
    /\ initialized' = (initialized \/ result)
    /\ IF ExchangeReady(result)
       THEN /\ loop' = [loop EXCEPT ![s] =
                   [@ EXCEPT !.pc = "register", !.register_calls = 1,
                             !.init_result = IF result THEN "true" ELSE "false"]]
            /\ UNCHANGED is_running
       ELSE /\ is_running' = FALSE
            /\ loop' = [loop EXCEPT ![s] =
                   [@ EXCEPT !.pc = "unregister", !.init_result = "false"]]
    /\ UNCHANGED <<now, client_vars, config, analysis, stopper, analysis_stats,
                   coordinator, starts, pcall>>

\* register_worker returns (the loop is entered) or raises (the except clause).
RegisterDone(s, ok, assets) ==
    LET next == LoopTop(loop[s], analysis[s], is_running, assets)
    IN  /\ loop[s].pc = "register"
        /\ IF ok
           THEN /\ coordinator' = [coordinator EXCEPT !.registered = TRUE]
                /\ loop' = [loop EXCEPT ![s] = next.lp]
                /\ analysis' = [analysis EXCEPT ![s] = next.an]
                /\ UNCHANGED is_running
           ELSE /\ StartFailed(s)
                /\ UNCHANGED analysis
        /\ UNCHANGED <<now, initialized, client_vars, config, stopper,
                       analysis_stats, starts, pcall>>

\* unregister_worker returns in the except clause of start(), which re-raises.
StartUnregisterDone(s) ==
    /\ loop[s].pc = "unregister"
    /\ coordinator' = [coordinator EXCEPT !.registered = FALSE]
    /\ loop' = [loop EXCEPT ![s] = [@ EXCEPT !.pc = "returned", !.raised = TRUE]]
    /\ UNCHANGED <<now, initialized, client_vars, is_running, config, analysis,
                   stopper, analysis_stats, starts, pcall>>

\* The caller of start() has its return or its exception.
StartReturn(s) ==
    /\ loop[s].pc = "returned"
    /\ loop' = [loop EXCEPT ![s] = IdleLoop]
    /\ UNCHANGED <<now, initialized, client_vars, is_running, config, analysis,
                   stopper, analysis_stats, coordinator, starts, pcall>>

\* The per-asset tasks that have been created and have not ended.
PendingTasks ==
    {sa \in Starters \X Assets :
        analysis[sa[1]][sa[2]].pc \in {"created", "permission", "candles"}}

\* stop() is called: a no-op when the worker is not running; else is_running
\* is cleared, the tasks of self.analysis_tasks (a dict nothing is ever put
\* into) are cancelled and gathered, the executor is shut down, and
\* unregister_worker is awaited.
StopCall ==
    /\ stopper.pc = "idle"
    /\ IF ~is_running
       THEN /\ stopper' = [IdleStop EXCEPT !.pc = "returned", !.noop = TRUE]
            /\ UNCHANGED <<is_running, coordinator>>
       ELSE /\ is_running' = FALSE
            /\ stopper' = [IdleStop EXCEPT !.pc = "unregister"]
            /\ UNCHANGED coordinator
    /\ UNCHANGED <<now, initialized, client_vars, config, loop, analysis,
                   analysis_stats, starts, pcall>>

\* unregister_worker returns and so does stop().
StopUnregisterDone ==
    /\ stopper.pc = "unregister"
    /\ coordinator' = [coordinator EXCEPT !.registered = FALSE]
    /\ stopper' = [stopper EXCEPT !.pc = "returned",
                                  !.pending_at_return = Cardinality(PendingTasks)]
    /\ UNCHANGED <<now, initialized, client_vars, is_running, config, loop,
                   analysis, analysis_stats, starts, pcall>>

\* The caller of stop() has its return.
StopReturn ==
    /\ stopper.pc = "returned"
    /\ stopper' = IdleStop
    /\ UNCHANGED <<now, initialized, client_vars, is_running, config, loop,
                   analysis, analysis_stats, coordinator, starts, pcall>>

\* ------------------------------------------------ the worker's runs
\* The configurations of a run: the scan interval in seconds, and aggressive
\* test mode on or off.
WorkerConfigIn ==
    {[scan_interval_seconds |-> 20, test_mode |-> FALSE, aggressive |-> FALSE,
      force_signals |-> FALSE],
     [scan_interval_seconds |-> 90, test_mode |-> FALSE, aggressive |-> FALSE,
      force_signals |-> FALSE],
     [scan_interval_seconds |-> 90, test_mode |-> TRUE, aggressive |-> TRUE,
      force_signals |-> FALSE]}

InitWorker ==
    /\ now = 0
    /\ request_timestamps = [e \in Endpoints |-> <<>>]
    /\ circuit_breaker =
          [is_open |-> FALSE, failure_count |-> 0, last_failure_time |-> 0]
    /\ initialized = FALSE
    /\ calls = 0
    /\ task = [p \in Callers |-> IdleTask]
    /\ hist = [streak |-> 0, since_reset |-> -1]
    /\ \E cfg \in WorkerConfigIn : WorkerInit(cfg)

\* ---------------------------- one start() call, stop() and the clock
\* The life of the worker over several cycles: the repository holds at most
\* one asset, whose analysis succeeds when its candles are there.
WorkerStarters == {"s1"}
WorkerTickSteps == {300}
WorkerAssetListsIn == {<<>>, <<1>>}
WorkerAnalysesIn == {c \in AnalysesIn : c.signal.type = "BUY" /\ c.raised = {}}
WorkerCreateIn == {[a \in Assets |-> b] : b \in BOOLEAN}

NextWorker ==
    \/ \E s \in WorkerStarters : StartCall(s)
    \/ \E s \in WorkerStarters, result \in BOOLEAN : InitializeDone(s, result)
    \/ \E s \in WorkerStarters, ok \in BOOLEAN, assets \in WorkerAssetListsIn :
            RegisterDone(s, ok, assets)
    \/ \E s \in WorkerStarters : StartUnregisterDone(s)
    \/ \E s \in WorkerStarters, a \in Assets : TaskBegin(s, a)
    \/ \E s \in WorkerStarters, a \in Assets, ok \in BOOLEAN,
          computed \in WorkerAnalysesIn : PermissionDone(s, a, ok, computed)
    \/ \E s \in WorkerStarters, a \in Assets, got \in BOOLEAN,
          computed \in WorkerAnalysesIn : CandlesDone(s, a, got, computed)
    \/ \E s \in WorkerStarters, create_ok \in WorkerCreateIn,
          logged \in BOOLEAN, assets \in WorkerAssetListsIn :
            GatherDone(s, create_ok, logged, assets)
    \/ \E s \in WorkerStarters, create_ok \in WorkerCreateIn,
          logged \in BOOLEAN, assets \in WorkerAssetListsIn :
            BroadcastDone(s, create_ok, logged, assets)
    \/ \E s \in WorkerStarters, assets \in WorkerAssetListsIn : SleepDone(s, assets)
    \/ StopCall
    \/ StopUnregisterDone
    \/ StopReturn
    \/ Tick(WorkerTickSteps, WorkerMaxTime)

SpecWorker == InitWorker /\ [][NextWorker]_vars

\* The same runs on an event loop that does its work: the clock advances as
\* long as it can, and a sleeper whose deadline has passed is resumed.
SpecWorkerFair ==
    /\ InitWorker
    /\ [][NextWorker]_vars
    /\ WF_vars(Tick(WorkerTickSteps, WorkerMaxTime))
    /\ \A s \in WorkerStarters :
          WF_vars(\E assets \in WorkerAssetListsIn : SleepDone(s, assets))

\* The same runs with, besides, every awaited collaborator returning: the
\* created tasks run, the permission requests, the candle fetches, the gather
\* and the broadcasts end.
SpecWorkerReturns ==
    /\ InitWorker
    /\ [][NextWorker]_vars
    /\ WF_vars(Tick(WorkerTickSteps, WorkerMaxTime))
    /\ \A s \in WorkerStarters :
          /\ WF_vars(\E assets \in WorkerAssetListsIn : SleepDone(s, assets))
          /\ WF_vars(\E a \in Assets : TaskBegin(s, a))
          /\ WF_vars(\E a \in Assets, ok \in BOOLEAN, computed \in WorkerAnalysesIn :
                        PermissionDone(s, a, ok, computed))
          /\ WF_vars(\E a \in Assets, got \in BOOLEAN, computed \in WorkerAnalysesIn :
                        CandlesDone(s, a, got, computed))
          /\ WF_vars(\E create_ok \in WorkerCreateIn, logged \in BOOLEAN,
                        assets \in WorkerAssetListsIn :
                        GatherDone(s, create_ok, logged, assets))
          /\ WF_vars(\E create_ok \in WorkerCreateIn, logged \in BOOLEAN,
                        assets \in WorkerAssetListsIn :
                        BroadcastDone(s, create_ok, logged, assets))

\* ------------------------------------- two start() calls and stop()
\* Two callers of start() and one of stop(), with the clock standing still:
\* a loop that went to sleep stays asleep.
NextWorkerPair ==
    \/ \E s \in Starters : StartCall(s)
    \/ \E s \in Starters, result \in BOOLEAN : InitializeDone(s, result)
    \/ \E s \in Starters, ok \in BOOLEAN, assets \in WorkerAssetListsIn :
            RegisterDone(s, ok, assets)
    \/ \E s \in Starters : StartUnregisterDone(s)
    \/ \E s \in Starters : StartReturn(s)
    \/ \E s \in Starters, a \in Assets : TaskBegin(s, a)
    \/ \E s \in Starters, a \in Assets, ok \in BOOLEAN,
          computed \in WorkerAnalysesIn : PermissionDone(s, a, ok, computed)
    \/ \E s \in Starters, a \in Assets, got \in BOOLEAN,
          computed \in WorkerAnalysesIn : CandlesDone(s, a, got, computed)
    \/ \E s \in Starters, create_ok \in WorkerCreateIn,
          logged \in BOOLEAN, assets \in WorkerAssetListsIn :
            GatherDone(s, create_ok, logged, assets)
    \/ \E s \in Starters, create_ok \in WorkerCreateIn,
          logged \in BOOLEAN, assets \in WorkerAssetListsIn :
            BroadcastDone(s, create_ok, logged, assets)
    \/ StopCall
    \/ StopUnregisterDone
    \/ StopReturn

SpecWorkerPair == InitWorker /\ [][NextWorkerPair]_vars

\* --------------------------------------- one cycle over all the assets
\* A started worker analyses the assets of one cycle and persists the
\* results; the clock stands still, so the run ends in the cycle's sleep.
CycleStarters == {"s1"}

NextCycle ==
    \/ \E s \in CycleStarters : StartCall(s)
    \/ \E s \in CycleStarters : InitializeDone(s, TRUE)
    \/ \E s \in CycleStarters, assets \in AssetListsIn : RegisterDone(s, TRUE, assets)
    \/ \E s \in CycleStarters, a \in Assets : TaskBegin(s, a)
    \/ \E s \in CycleStarters, a \in Assets, ok \in BOOLEAN, computed \in AnalysesIn :
            PermissionDone(s, a, ok, computed)
    \/ \E s \in CycleStarters, a \in Assets, got \in BOOLEAN, computed \in AnalysesIn :
            CandlesDone(s, a, got, computed)
    \/ \E s \in CycleStarters, create_ok \in [Assets -> BOOLEAN], logged \in BOOLEAN :
            GatherDone(s, create_ok, logged, <<>>)
    \/ \E s \in CycleStarters, create_ok \in [Assets -> BOOLEAN], logged \in BOOLEAN :
            BroadcastDone(s, create_ok, logged, <<>>)

SpecCycle == InitWorker /\ [][NextCycle]_vars

\* ------------------------------- one cycle, the order of completion
\* One cycle as above, with the order in which the tasks complete kept in
\* rank and ranks; an analysis succeeds when its candles are there.
NextOrder ==
    \/ \E s \in CycleStarters : StartCall(s)
    \/ \E s \in CycleStarters : InitializeDone(s, TRUE)
    \/ \E s \in CycleStarters, assets \in AssetListsIn : RegisterDone(s, TRUE, assets)
    \/ \E s \in CycleStarters, a \in Assets : TaskBegin(s, a)
    \/ \E s \in CycleStarters, a \in Assets, ok \in BOOLEAN,
          computed \in WorkerAnalysesIn : RankedPermissionDone(s, a, ok, computed)
    \/ \E s \in CycleStarters, a \in Assets, got \in BOOLEAN,
          computed \in WorkerAnalysesIn : RankedCandlesDone(s, a, got, computed)
    \/ \E s \in CycleStarters, create_ok \in [Assets -> BOOLEAN], logged \in BOOLEAN :
            GatherDone(s, create_ok, logged, <<>>)
    \/ \E s \in CycleStarters, create_ok \in [Assets -> BOOLEAN], logged \in BOOLEAN :
            BroadcastDone(s, create_ok, logged, <<>>)

SpecOrder == InitWorker /\ [][NextOrder]_vars

\* ------------------------------ one cycle, signals around the thresholds
\* One cycle over one or two assets whose analyses give signals of every type
\* with confidences below, at and above the thresholds of the persistence
\* (0.3) and of the statistics (0.4).
SignalConfidenceIn == {29, 30, 35, 40, 70}
SignalAnalysesIn ==
    {[signal |-> sg, position |-> "above", indicators |-> Timeframes,
      raised |-> {}] :
        sg \in [type : {"NEUTRAL", "BUY", "SELL"}, confidence : SignalConfidenceIn]}
SignalAssetListsIn == {<<1>>, <<1, 2>>}

NextSignals ==
    \/ \E s \in CycleStarters : StartCall(s)
    \/ \E s \in CycleStarters : InitializeDone(s, TRUE)
    \/ \E s \in CycleStarters, assets \in SignalAssetListsIn :
            RegisterDone(s, TRUE, assets)
    \/ \E s \in CycleStarters, a \in Assets : TaskBegin(s, a)
    \/ \E s \in CycleStarters, a \in Assets, ok \in BOOLEAN,
          computed \in SignalAnalysesIn : PermissionDone(s, a, ok, computed)
    \/ \E s \in CycleStarters, a \in Assets, got \in BOOLEAN,
          computed \in SignalAnalysesIn : CandlesDone(s, a, got, computed)
    \/ \E s \in CycleStarters, create_ok \in [Assets -> BOOLEAN], logged \in BOOLEAN :
            GatherDone(s, create_ok, logged, <<>>)
    \/ \E s \in CycleStarters, create_ok \in [Assets -> BOOLEAN], logged \in BOOLEAN :
            BroadcastDone(s, create_ok, logged, <<>>)

SpecSignals == InitWorker /\ [][NextSignals]_vars

\* ------------------------------------------- analyze_specific_symbol
\* The asset the symbol of the on-demand analysis belongs to.
OnDemandAsset == 1

\* OnDemandHandled with the exception leaving analyze_specific_symbol.
OnDemandHandled_propagates(od) ==
    [od EXCEPT !.pc = "done", !.raised = TRUE]

\* The "except Exception" of analyze_specific_symbol: the error is logged and
\* the dict with 'error' returned.
OnDemandHandled(od) ==
    [od EXCEPT !.pc = "done", !.returned = [NoResult EXCEPT !.error = TRUE]]

\* analyze_specific_symbol is called: the asset is looked up (found, missing,
\* or the session or the query raises); for an asset that is found
\* _analyze_single_asset runs up to its first permission request. is_running
\* is not read.
OnDemandCall(lookup) ==
    LET od == [NoOnDemand EXCEPT !.running = is_running,
                                 !.count = pcall.od.count + 1]
    IN  /\ pcall.pc = "idle"
        /\ pcall.od.pc = "idle"
        /\ pcall.od.count < MaxOnDemand
        /\ pcall' = [NoPersist EXCEPT !.od =
               IF lookup = "found"
               THEN [od EXCEPT !.pc = "analysing",
                               !.an = [NoAnalysis EXCEPT !.pc = "permission",
                                                         !.tf = 1]]
               ELSE OnDemandHandled(od)]
        /\ UNCHANGED <<now, initialized, client_vars, is_running, config, loop,
                       analysis, stopper, analysis_stats, coordinator, starts>>

\* analyze_specific_symbol after _analyze_single_asset has returned (od.an is
\* done): an error-tagged result is returned as it is; any other is given to
\* _persist_analysis_result, which raises at once (~persist_ok), ends, or
\* awaits its broadcast.
OnDemandAfterAnalysis(od, create_ok, persist_ok) ==
    LET od1 == [od EXCEPT !.persist_calls = od.persist_calls + 1]
        begun == PersistBegin(od.an.result, create_ok)
    IN  IF od.an.result.error
        THEN [NoPersist EXCEPT !.od =
                 [od EXCEPT !.pc = "done", !.returned = od.an.result]]
        ELSE IF ~persist_ok
        THEN [NoPersist EXCEPT !.od = OnDemandHandled(od1)]
        ELSE IF begun.pc = "broadcast"
        THEN [begun EXCEPT !.od = [od1 EXCEPT !.pc = "persisting"]]
        ELSE [begun EXCEPT !.od =
                 [od1 EXCEPT !.pc = "done", !.returned = od.an.result]]

\* The step of the on-demand analysis that ends a timeframe.
OnDemandEndTimeframe(got, computed, create_ok, persist_ok) ==
    LET t == AfterTimeframe(OnDemandAsset, pcall.od.an, got, computed)
        od == [pcall.od EXCEPT !.an = t]
    IN  /\ pcall' = IF t.pc = "done"
                    THEN OnDemandAfterAnalysis(od, create_ok, persist_ok)
                    ELSE [pcall EXCEPT !.od = od]
        /\ analysis_stats' =
              IF t.pc = "done" THEN StatsAfter(analysis_stats, t.result)
              ELSE analysis_stats

\* The permission request of the on-demand analysis returns or raises.
OnDemandPermissionDone(ok, computed, create_ok, persist_ok) ==
    /\ pcall.od.pc = "analysing"
    /\ pcall.od.an.pc = "permission"
    /\ IF FetchFollows(ok)
       THEN /\ pcall' = [pcall EXCEPT !.od.an.pc = "candles",
                                      !.od.an.permit =
                                          IF ok THEN pcall.od.an.tf ELSE @]
            /\ UNCHANGED analysis_stats
       ELSE OnDemandEndTimeframe(FALSE, computed, create_ok, persist_ok)
    /\ UNCHANGED <<now, initialized, client_vars, is_running, config, loop,
                   analysis, stopper, coordinator, starts>>

\* get_candles of the on-demand analysis returns candles (got), or returns
\* none or raises.
OnDemandCandlesDone(got, computed, create_ok, persist_ok) ==
    /\ pcall.od.pc = "analysing"
    /\ pcall.od.an.pc = "candles"
    /\ OnDemandEndTimeframe(got, computed, create_ok, persist_ok)
    /\ UNCHANGED <<now, initialized, client_vars, is_running, config, loop,
                   analysis, stopper, coordinator, starts>>

\* The broadcast awaited by the on-demand call's persistence returns or
\* raises: _persist_analysis_result ends and the result is returned.
OnDemandBroadcastDone ==
    /\ pcall.od.pc = "persisting"
    /\ pcall.pc = "broadcast"
    /\ pcall' = [pcall EXCEPT !.pc = "done", !.od.pc = "done",
                              !.od.returned = pcall.od.an.result]
    /\ UNCHANGED <<now, initialized, client_vars, is_running, config, loop,
                   analysis, stopper, analysis_stats, coordinator, starts>>

\* The caller of analyze_specific_symbol has its result.
OnDemandReturn ==
    /\ pcall.od.pc = "done"
    /\ pcall' = [NoPersist EXCEPT !.od.count = pcall.od.count]
    /\ UNCHANGED <<now, initialized, client_vars, is_running, config, loop,
                   analysis, stopper, analysis_stats, coordinator, starts>>

\* On-demand analyses beside a worker that is started and runs one cycle
\* over two assets, whose analyses succeed when their candles are there; the
\* clock stands still.
OnDemandAssetListsIn == {<<1, 2>>}
OnDemandLookupIn == {"found", "missing", "raises"}

NextOnDemand ==
    \/ \E s \in CycleStarters : StartCall(s)
    \/ \E s \in CycleStarters : InitializeDone(s, TRUE)
    \/ \E s \in CycleStarters, assets \in OnDemandAssetListsIn :
            RegisterDone(s, TRUE, assets)
    \/ \E s \in CycleStarters, a \in Assets : TaskBegin(s, a)
    \/ \E s \in CycleStarters, a \in Assets, ok \in BOOLEAN, computed \in WorkerAnalysesIn :
            PermissionDone(s, a, ok, computed)
    \/ \E s \in CycleStarters, a \in Assets, got \in BOOLEAN, computed \in WorkerAnalysesIn :
            CandlesDone(s, a, got, computed)
    \/ \E s \in CycleStarters, create_ok \in [Assets -> BOOLEAN], logged \in BOOLEAN :
            GatherDone(s, create_ok, logged, <<>>)
    \/ \E s \in CycleStarters, create_ok \in [Assets -> BOOLEAN], logged \in BOOLEAN :
            BroadcastDone(s, create_ok, logged, <<>>)
    \/ \E lookup \in OnDemandLookupIn : OnDemandCall(lookup)
    \/ \E ok, create_ok, persist_ok \in BOOLEAN, computed \in AnalysesIn :
            OnDemandPermissionDone(ok, computed, create_ok, persist_ok)
    \/ \E got, create_ok, persist_ok \in BOOLEAN, computed \in AnalysesIn :
            OnDemandCandlesDone(got, computed, create_ok, persist_ok)
    \/ OnDemandBroadcastDone
    \/ OnDemandReturn

SpecOnDemand == InitWorker /\ [][NextOnDemand]_vars

\* ------------------------------------- fetch_ticker against the breaker
\* One caller calls fetch_ticker again and again (the scenario of a breaker
\* opened by rate-limit failures and a further call within recovery_time).
\* With at most ClientMaxCalls calls the limiter never sleeps in these runs.
TickerArgs == {a \in ArgsOf("fetch_ticker") : a.symbol \in {"ok", "bad"}}
TickerTickSteps == {1000}

NextTicker ==
    \/ \E p \in ClientCallers, args \in TickerArgs : OpCall(p, "fetch_ticker", args)
    \/ \E p \in ClientCallers, o \in Outcomes, r \in BOOLEAN : OpComplete(p, o, r)
    \/ \E p \in ClientCallers : ExecWake(p)
    \/ \E p \in ClientCallers : ExecReturn(p)
    \/ Tick(TickerTickSteps, TickerMaxTime)

SpecTicker == Init /\ [][NextTicker]_vars

\* ------------------------------------------------------------ claims
\* The timestamps of an endpoint inside the trailing window that ends now.
InWindow(endpoint) ==
    {i \in 1..Len(request_timestamps[endpoint]) :
        now - request_timestamps[endpoint][i] <= rate_limit_window}

\* C1: for every endpoint, the number of request timestamps recorded inside
\* the trailing 10-second window never exceeds the endpoint's budget, whatever
\* the interleaving of the concurrent callers of _check_rate_limit.
C1_WindowWithinBudget ==
    \A e \in Endpoints :
        2 * Cardinality(InWindow(e)) <= RateLimitTwice(e)

\* ------------------------------------------------- steps, as the claims see them
\* The breaker is open and recovery_time has not elapsed since last_failure_time.
OpenWithinRecovery(cb, current_time) ==
    cb.is_open /\ current_time - cb.last_failure_time <= recovery_time

\* In this step p enters _execute_with_retry.
Starts(p) == task[p].pc = "idle" /\ task'[p].pc # "idle"

\* In this step the attempt p was awaiting ends.
Completes(p) == task[p].pc = "awaiting" /\ task'[p].pc # "awaiting"

\* In this step p invokes the exchange operation.
Invokes(p) == task'[p].invoked > task[p].invoked

\* In this step a _record_failure takes place.
FailureRecorded ==
    circuit_breaker'.failure_count = circuit_breaker.failure_count + 1

\* C2: from a closed breaker with failure_count 0 the breaker is open exactly
\* from the third failure recorded with no intervening success, not earlier;
\* a call of _execute_with_retry that starts while the breaker is open and
\* recovery_time has not elapsed raises the breaker-open error without entering
\* the retry loop and without invoking the operation.
C2_OpensAtThreshold ==
    /\ hist.streak >= 0 =>
          (circuit_breaker.is_open <=> hist.streak >= failure_threshold)
    /\ \A p \in Callers :
          /\ task[p].blocked_at_start =>
                /\ task[p].pc = "done"
                /\ task[p].raised = "RateLimitError"
                /\ task[p].reason = "circuit_open"
                /\ task[p].invoked = 0
                /\ task[p].n_sleeps = 0
          /\ task[p].reason = "circuit_open" => task[p].blocked_at_start

C2_Witness ==
    /\ hist.streak = failure_threshold
    /\ circuit_breaker.is_open
    /\ \E p \in Callers : task[p].blocked_at_start /\ task[p].pc = "done"

\* C3: while the breaker is open and recovery_time has not elapsed since
\* last_failure_time, no caller of _execute_with_retry invokes the exchange
\* operation, whether its call started before or after the breaker opened.
C3_NoInvocationWhileOpen ==
    [][\A p \in Callers :
          Invokes(p) => ~OpenWithinRecovery(circuit_breaker', now')]_vars

\* C4 as claimed: the first failure recorded after the recovery path has reset
\* the breaker re-opens it at once.
C4_ReopensOnFirstFailure ==
    [][(hist.since_reset = 0 /\ FailureRecorded)
          => circuit_breaker'.is_open]_vars

\* C4 as amended: the first failure recorded after the recovery path has reset
\* the breaker makes failure_count 1 and leaves the breaker closed; after a
\* reset the breaker is open again only once failure_threshold failures have
\* been recorded since the reset.
C4_CountsAfreshAfterReset ==
    [][(hist.since_reset >= 0 /\ FailureRecorded) =>
          /\ hist.since_reset = 0 =>
                /\ circuit_breaker'.failure_count = 1
                /\ ~circuit_breaker'.is_open
          /\ circuit_breaker'.is_open =>
                hist'.since_reset >= failure_threshold]_vars

C4_Witness ==
    /\ hist.since_reset = 1
    /\ circuit_breaker.failure_count = 1
    /\ ~circuit_breaker.is_open

\* C5: the breaker goes from open to closed only in the admission check of a
\* starting _execute_with_retry and only when more than recovery_time has
\* elapsed since last_failure_time; the step sets failure_count to 0 and lets
\* that call make a real attempt; a check that finds the breaker open with
\* recovery_time elapsed closes it and is never rejected.
C5_LazyRecovery ==
    [][/\ (circuit_breaker.is_open /\ ~circuit_breaker'.is_open) =>
            /\ now - circuit_breaker.last_failure_time > recovery_time
            /\ circuit_breaker'.failure_count = 0
            /\ \E p \in Callers :
                  /\ Starts(p)
                  /\ task'[p].pc = "awaiting"
                  /\ task'[p].invoked = 1
       /\ \A p \in Callers :
            (/\ Starts(p)
             /\ circuit_breaker.is_open
             /\ now - circuit_breaker.last_failure_time > recovery_time) =>
                /\ ~circuit_breaker'.is_open
                /\ circuit_breaker'.failure_count = 0
                /\ task'[p].pc = "awaiting"
                /\ task'[p].reason # "circuit_open"]_vars

C5_Witness ==
    /\ hist.since_reset = 0
    /\ ~circuit_breaker.is_open
    /\ \E p \in Callers : task[p].pc = "awaiting" /\ task[p].invoked = 1

\* C6: _record_success lowers failure_count by exactly 1 when it is positive
\* and leaves it at 0 otherwise, and does not change is_open; after N <
\* failure_threshold failures and one success the count is N-1 (0 for N = 0)
\* and the breaker is closed; a successful attempt records one success and the
\* call returns with no further attempt. failure_count is never negative.
C6_SuccessDecrements ==
    [][/\ circuit_breaker'.failure_count >= 0
       /\ \A p \in Callers :
            (Completes(p) /\ task'[p].last_outcome = "ok") =>
                /\ circuit_breaker'.failure_count =
                      (IF circuit_breaker.failure_count > 0
                       THEN circuit_breaker.failure_count - 1 ELSE 0)
                /\ circuit_breaker'.is_open = circuit_breaker.is_open
                /\ circuit_breaker'.last_failure_time =
                      circuit_breaker.last_failure_time
                /\ (hist.streak >= 0 /\ hist.streak < failure_threshold) =>
                      /\ ~circuit_breaker'.is_open
                      /\ circuit_breaker'.failure_count =
                            (IF hist.streak > 0 THEN hist.streak - 1 ELSE 0)
                /\ task'[p].pc = "done"
                /\ task'[p].raised = "none"
                /\ task'[p].reason = "returned"
                /\ task'[p].invoked = task[p].invoked
                /\ task'[p].n_sleeps = task[p].n_sleeps]_vars

C6_Witness ==
    /\ circuit_breaker.failure_count = 1
    /\ ~circuit_breaker.is_open
    /\ \E p \in Callers :
          /\ task[p].pc = "done"
          /\ task[p].reason = "returned"
          /\ task[p].invoked = 3

\* C7: an attempt that raises ccxt.ExchangeError ends the call at once: no
\* further attempt, no backoff sleep, the breaker untouched; an operation that
\* always fails this way is invoked exactly once.
C7_ExchangeErrorNotRetried ==
    [][\A p \in Callers :
          /\ (Completes(p) /\ task'[p].last_outcome = "exchange") =>
                /\ task'[p].pc = "done"
                /\ task'[p].inner = "BingXError"
                /\ task'[p].reason = "exchange"
                /\ task'[p].invoked = task[p].invoked
                /\ task'[p].n_sleeps = task[p].n_sleeps
                /\ circuit_breaker' = circuit_breaker
          /\ (task'[p].pc = "done" /\ task'[p].uniform = "exchange") =>
                /\ task'[p].invoked = 1
                /\ task'[p].n_sleeps = 0]_vars

C7_Witness ==
    \E p \in Callers :
        /\ task[p].pc = "done"
        /\ task[p].uniform = "exchange"
        /\ task[p].max_retries = default_max_retries
        /\ task[p].invoked = 1

\* C8: when every attempt of a call raises a rate-limit-class error, the
\* operation is invoked exactly max_retries times, every failure is recorded
\* on the breaker, the sleep after attempt k is delay_factor*3^k + 5*k seconds
\* and longer than the sleep before it, no sleep follows the last attempt and
\* the call ends with RateLimitError.
C8_RateLimitRetries ==
    [][\A p \in Callers :
          /\ (Completes(p) /\ task'[p].last_outcome = "ratelimit") =>
                /\ circuit_breaker'.failure_count =
                      circuit_breaker.failure_count + 1
                /\ circuit_breaker'.last_failure_time = now
                /\ task'[p].pc = "backoff" =>
                      /\ task[p].attempt < task[p].max_retries - 1
                      /\ task'[p].n_sleeps = task[p].n_sleeps + 1
                      /\ task'[p].last_sleep =
                            task[p].delay_factor * (3 ^ task[p].attempt)
                               + 5 * task[p].attempt
                      /\ task'[p].wake_at = now + 10 * task'[p].last_sleep
                      /\ task'[p].uniform = "ratelimit" =>
                            task'[p].last_sleep > task[p].last_sleep
                /\ task'[p].pc # "backoff" =>
                      /\ task[p].attempt = task[p].max_retries - 1
                      /\ task'[p].n_sleeps = task[p].n_sleeps
          /\ (task'[p].pc = "done" /\ task'[p].uniform = "ratelimit") =>
                /\ task'[p].invoked = task'[p].max_retries
                /\ task'[p].n_sleeps = task'[p].max_retries - 1
                /\ task'[p].inner = "RateLimitError"
                /\ task'[p].reason = "exhausted"]_vars

C8_Witness ==
    \E p \in Callers :
        /\ task[p].pc = "done"
        /\ task[p].uniform = "ratelimit"
        /\ task[p].max_retries = default_max_retries
        /\ task[p].delay_factor = default_delay_factor
        /\ task[p].invoked = 5
        /\ task[p].last_sleep = 69

\* C9: a public operation whose caller-supplied arguments fail validation
\* (malformed symbol, side not buy/sell, non-positive amount or price, invalid
\* timeframe) raises ValidationError; _execute_with_retry is never entered and
\* the exchange operation is invoked zero times.
C9_ValidationFailsFast ==
    \A p \in Callers :
        LET t == task[p]
            invalid ==
                \/ t.args.symbol = "bad"
                \/ t.args.side = "bad"
                \/ t.args.amount = "bad"
                \/ t.args.price = "bad"
                \/ t.args.timeframe = "bad"
        IN  /\ (t.op # "none" /\ invalid /\ t.reason # "not_initialized") =>
                  /\ t.executor_calls = 0
                  /\ t.invoked = 0
                  /\ t.pc \in {"rl_sleep", "done"}
                  /\ t.pc = "done" => t.raised = "ValidationError"
            /\ t.raised = "ValidationError" =>
                  (t.op # "none" /\ invalid /\ t.pc = "done")

C9_Witness ==
    \E p \in Callers :
        /\ task[p].op = "create_limit_order"
        /\ task[p].args.symbol = "ok"
        /\ task[p].args.price = "bad"
        /\ task[p].pc = "done"
        /\ task[p].raised = "ValidationError"
        /\ task[p].rl_sleeps = 0

\* C10 as claimed: a failed attempt increments the breaker's failure count
\* exactly when the failure is of the rate-limit class or of the generic
\* (unexpected) class.
C10_RateLimitAndGenericFeed ==
    [][\A p \in Callers :
          (Completes(p) /\ task'[p].last_outcome # "ok") =>
              (FailureRecorded <=>
                  task'[p].last_outcome \in {"ratelimit", "other"})]_vars

\* C10 as amended: a failed attempt increments the breaker's failure count (and
\* sets last_failure_time) exactly when the failure is of the rate-limit class;
\* a network, exchange or generic failure leaves the breaker as it was.
C10_OnlyRateLimitFeeds ==
    [][\A p \in Callers :
          (Completes(p) /\ task'[p].last_outcome # "ok") =>
              /\ FailureRecorded <=> task'[p].last_outcome = "ratelimit"
              /\ task'[p].last_outcome # "ratelimit" =>
                    circuit_breaker' = circuit_breaker]_vars

C10_Witness ==
    /\ circuit_breaker.failure_count = 1
    /\ \E p \in Callers :
          /\ task[p].pc = "backoff"
          /\ task[p].last_outcome = "other"
          /\ task[p].invoked = 2

\* C11: a public operation called while the breaker is open and recovery_time
\* has not elapsed fails towards its caller with the breaker-open error class
\* (RateLimitError), and the exchange operation is not invoked.
C11_BreakerOpenErrorClass ==
    \A p \in Callers :
        (task[p].op # "none" /\ task[p].blocked_at_start) =>
            /\ task[p].pc = "done"
            /\ task[p].raised = "RateLimitError"
            /\ task[p].invoked = 0

\* C12: when the gather of a cycle returns, the result list has exactly one
\* entry per asset of the cycle, in the order of the assets; the entry of an
\* asset carries the 'error' field exactly when that asset's analysis failed,
\* and it is the dict that asset's own analysis returned, whatever the other
\* analyses did; the cycle goes on to the persistence of the results.
C12_OneEntryPerAsset ==
    [][\A s \in Starters :
          (loop[s].pc = "gather" /\ loop'[s].pc # "gather") =>
              /\ loop'[s].pc \in {"broadcast", "sleep"}
              /\ loop'[s].cycles = loop[s].cycles
              /\ Len(loop'[s].results) = Len(loop[s].assets)
              /\ \A i \in 1..Len(loop[s].assets) :
                    LET a == loop[s].assets[i]
                        r == loop'[s].results[i]
                    IN  /\ r.asset = a
                        /\ r.error = (analysis[s][a].failure # "none")
                        /\ r = analysis[s][a].result]_vars

C12_Witness ==
    \E s \in Starters :
        /\ loop[s].pc \in {"broadcast", "sleep"}
        /\ Len(loop[s].results) = 3
        /\ ~loop[s].results[1].error
        /\ loop[s].results[1].signal.type = "BUY"
        /\ loop[s].results[2].error
        /\ ~loop[s].results[3].error
        /\ loop[s].persist_calls > 0

\* C13: in every reachable state at most one start() call is inside
\* _run_analysis_loop.
C13_SingleLoop ==
    Cardinality({s \in Starters : loop[s].pc \in LoopPcs}) <= 1

\* C14: when stop() has returned from stopping a running worker, no per-asset
\* analysis task was still pending at its return.
C14_TasksEndedAtStopReturn ==
    (stopper.pc = "returned" /\ ~stopper.noop) => stopper.pending_at_return = 0

\* C15 as claimed: a signal whose confidence is below the persistence threshold
\* in force, or whose type is neutral, reaches neither create_signal nor
\* broadcast; any other signal reaches each of them exactly once.
C15_BelowThresholdDropped ==
    LET signal == pcall.result.signal
    IN  pcall.pc = "done" =>
            IF signal.type = "NEUTRAL" \/ signal.confidence < Threshold(config)
            THEN pcall.created = 0 /\ pcall.broadcast = 0
            ELSE pcall.created = 1 /\ pcall.broadcast = 1

\* C15 as amended: the signal that counts is the analysed signal outside test
\* mode and, in test mode, the signal after forcing (a neutral signal becomes
\* BUY or SELL at 0.8 when force_signals is on and the spot mm1 and center are
\* there) and boosting (a positive confidence gains 0.3, up to 0.95). When that
\* signal is neutral or below the threshold in force (0.3, in test mode 0.1)
\* neither interface is called; otherwise create_signal is called exactly once
\* with it, and broadcast exactly once when create_signal returned and not at
\* all when it raised.
C15_AdjustedSignalPersisted ==
    LET given == pcall.result.signal
        forced == /\ config.test_mode /\ config.force_signals
                  /\ given.type = "NEUTRAL" /\ pcall.result.position # "none"
        type == IF forced
                THEN (IF pcall.result.position = "above" THEN "BUY" ELSE "SELL")
                ELSE given.type
        base == IF forced THEN 80 ELSE given.confidence
        confidence == IF config.test_mode /\ base > 0
                      THEN (IF base + 30 > 95 THEN 95 ELSE base + 30)
                      ELSE base
        threshold == IF config.test_mode THEN 10 ELSE 30
    IN  pcall.pc \in {"broadcast", "done"} =>
            IF type = "NEUTRAL" \/ confidence < threshold
            THEN pcall.created = 0 /\ pcall.broadcast = 0
            ELSE /\ pcall.created = 1
                 /\ pcall.passed = [type |-> type, confidence |-> confidence]
                 /\ pcall.broadcast = (IF pcall.create_raised THEN 0 ELSE 1)

C15_Witness ==
    /\ pcall.pc = "done"
    /\ ~config.test_mode
    /\ pcall.result.signal = [type |-> "BUY", confidence |-> 30]
    /\ pcall.created = 1
    /\ pcall.broadcast = 1

\* C16: when a cycle has completed normally after duration D under the
\* effective interval I, the loop sleeps I - D if D < I; if D >= I it does not
\* sleep but goes straight to the next "while self.is_running" (a new cycle,
\* or the return); no sleep of the loop ends before it began.
C16_SleepIsIntervalLessDuration ==
    [][\A s \in Starters :
          LET D == now - loop[s].loop_start
              I == EffectiveInterval(config)
          IN  loop[s].pc \in {"gather", "broadcast"} =>
                /\ (/\ loop'[s].pc = "sleep"
                    /\ loop'[s].cycles = loop[s].cycles
                    /\ loop'[s].ended = "normal")
                      => (D < I /\ loop'[s].wake_at - now = I - D)
                /\ loop'[s].cycles = loop[s].cycles + 1 => D >= I
                /\ (loop'[s].pc = "returned" /\ loop'[s].ended = "normal")
                      => D >= I
                /\ loop'[s].pc = "sleep" => loop'[s].wake_at >= now]_vars

C16_Witness ==
    \E s \in Starters :
        /\ loop[s].pc = "sleep"
        /\ loop[s].ended = "normal"
        /\ config.scan_interval_seconds = 90
        /\ ~config.test_mode
        /\ loop[s].cycle_duration = 300
        /\ loop[s].wake_at - (loop[s].loop_start + loop[s].cycle_duration) = 600

\* C17 as stated: with aggressive test mode off, a cycle never starts less
\* than SCAN_INTERVAL_SECONDS after the start of the previous cycle of the
\* same loop.
C17_NeverFasterThanScanInterval ==
    [][\A s \in Starters :
          (/\ ~(config.test_mode /\ config.aggressive)
           /\ loop[s].cycles >= 1
           /\ loop'[s].cycles = loop[s].cycles + 1)
            => now - loop[s].loop_start >= 10 * config.scan_interval_seconds]_vars

\* C17, amended: with aggressive test mode off, the time between the starts
\* of two consecutive cycles of a loop is at least SCAN_INTERVAL_SECONDS when
\* the earlier cycle completed normally, at least 60 s when it found no valid
\* asset, and at least 30 s when it ended in the loop's exception handler.
C17_GapByEnding ==
    [][\A s \in Starters :
          (/\ ~(config.test_mode /\ config.aggressive)
           /\ loop[s].cycles >= 1
           /\ loop'[s].cycles = loop[s].cycles + 1)
            => LET gap == now - loop[s].loop_start
               IN  IF loop[s].pc = "sleep" /\ loop[s].ended = "empty"
                   THEN gap >= 600
                   ELSE IF loop[s].pc = "sleep" /\ loop[s].ended = "exception"
                   THEN gap >= 300
                   ELSE gap >= 10 * config.scan_interval_seconds]_vars

C17_Witness ==
    \E s \in Starters :
        /\ config.scan_interval_seconds = 90
        /\ ~config.test_mode
        /\ loop[s].cycles = 2
        /\ loop[s].ended = "exception"
        /\ loop[s].pc = "gather"
        /\ loop[s].loop_start = 300

\* C18: a step of a cycle that calls upsert_indicators, create_signal or
\* broadcast starts from a state in which no per-asset analysis task of that
\* cycle is still to finish.
C18_PersistenceAfterAnalyses ==
    [][\A s \in Starters :
          (/\ loop'[s].cycles = loop[s].cycles
           /\ loop'[s].persist_calls > loop[s].persist_calls)
            => \A i \in 1..Len(loop[s].assets) :
                  analysis[s][loop[s].assets[i]].pc
                      \notin {"created", "permission", "candles"}]_vars

C18_Witness ==
    \E s \in Starters :
        /\ loop[s].pc = "broadcast"
        /\ Len(loop[s].assets) = 3
        /\ loop[s].idx = 2
        /\ loop[s].persist_calls > Timeframes + 2

\* C19: a start() call made while is_running is True returns at once, without
\* raising, without a call of initialize_client or register_worker and without
\* a cycle, and changes neither is_running, nor the statistics, nor the
\* registration, nor any task.
C19_StartWhileRunningIsNoop ==
    [][\A s \in Starters :
          (loop[s].pc = "idle" /\ loop'[s].pc # "idle" /\ is_running) =>
              /\ loop'[s].pc = "returned"
              /\ ~loop'[s].raised
              /\ loop'[s].init_calls = 0
              /\ loop'[s].register_calls = 0
              /\ loop'[s].cycles = 0
              /\ is_running'
              /\ analysis_stats' = analysis_stats
              /\ coordinator' = coordinator
              /\ analysis' = analysis
              /\ initialized' = initialized]_vars

C19_Witness ==
    \E s, r \in Starters :
        /\ loop[s].pc = "returned"
        /\ loop[s].noop
        /\ loop[r].pc = "gather"
        /\ is_running
        /\ analysis_stats.total > 0

\* C20 as stated: when a start() call whose initialize_client() failed has
\* returned, it has raised, is_running is False, and the call has neither
\* called register_worker nor started a cycle.
C20_StoppedAtReturn ==
    \A s \in Starters :
        (loop[s].init_result = "false" /\ loop[s].pc = "returned") =>
            /\ loop[s].raised
            /\ ~is_running
            /\ loop[s].register_calls = 0
            /\ loop[s].cycles = 0

\* C20, amended: a start() call whose initialize_client() returned False
\* clears is_running at once, goes to its except clause and raises; it never
\* calls register_worker and starts no cycle; is_running is False from then
\* to its return unless another start() call has set it in the meantime.
C20_InitFailureIsFatal ==
    \A s \in Starters :
        loop[s].init_result = "false" =>
            /\ loop[s].pc \in {"unregister", "returned"}
            /\ loop[s].pc = "returned" => loop[s].raised
            /\ loop[s].register_calls = 0
            /\ loop[s].cycles = 0
            /\ is_running =>
                  \E r \in Starters \ {s} :
                      loop[r].pc \in {"init", "register"} \cup LoopPcs

C20_Witness ==
    \E s \in Starters :
        /\ loop[s].init_result = "false"
        /\ loop[s].pc = "returned"
        /\ loop[s].raised
        /\ ~is_running
        /\ \A r \in Starters \ {s} : loop[r].pc = "idle"

\* C21: a start() call leaves _run_analysis_loop only by a plain return made
\* when is_running is False, never by an exception of a cycle; the sleep
\* that follows a caught exception lasts 30 s and belongs to a running
\* worker; and
\* from that sleep, if its deadline lies within the run, the loop goes on to
\* a further cycle unless is_running has been cleared.
C21_LoopSurvivesCycleFailure ==
    /\ [][\A s \in Starters :
            /\ (loop[s].pc \in LoopPcs /\ loop'[s].pc \notin LoopPcs) =>
                  /\ loop'[s].pc = "returned"
                  /\ ~loop'[s].raised
                  /\ ~is_running
            /\ (/\ loop[s].pc \in {"gather", "broadcast"}
                /\ loop'[s].pc = "sleep"
                /\ loop'[s].ended = "exception") =>
                  /\ is_running
                  /\ loop'[s].wake_at = now + 300
                  /\ loop'[s].cycles = loop[s].cycles]_vars
    /\ \A s \in Starters :
          (/\ loop[s].pc = "sleep"
           /\ loop[s].ended = "exception"
           /\ loop[s].wake_at <= WorkerMaxTime)
            ~> \/ ~is_running
               \/ loop[s].pc = "gather"
               \/ loop[s].pc = "sleep" /\ loop[s].ended = "empty"

C21_Witness ==
    \E s \in Starters :
        /\ loop[s].cycles = 2
        /\ loop[s].pc = "gather"
        /\ loop[s].ended = "exception"
        /\ analysis_stats.failed > 0
        /\ is_running

\* C22: a call never has more invocations of an exchange operation behind it
\* than admissions by _check_rate_limit: every invocation, a retry attempt or
\* a probe of _test_connection included, has its own admission before it.
C22_AdmissionPerInvocation ==
    \A p \in Callers : task[p].invoked <= task[p].admissions

\* C25: a public operation called while _initialized is False ends at once
\* with BingXError, with no request recorded in any rate-limit window, the
\* circuit breaker as it was, the retry executor not entered and no
\* exchange operation invoked.
C25_UninitializedFailsFast ==
    [][\A p \in Callers :
          (/\ task[p].pc = "idle"
           /\ task'[p].pc # "idle"
           /\ task'[p].op \in Operations
           /\ ~initialized) =>
              /\ task'[p].pc = "done"
              /\ task'[p].raised = "BingXError"
              /\ task'[p].invoked = 0
              /\ task'[p].admissions = 0
              /\ task'[p].executor_calls = 0
              /\ request_timestamps' = request_timestamps
              /\ circuit_breaker' = circuit_breaker]_vars

C25_Witness ==
    \E p \in Callers :
        /\ task[p].pc = "done"
        /\ task[p].op = "create_market_order"
        /\ task[p].raised = "BingXError"
        /\ task[p].reason = "not_initialized"
        /\ calls = 2
        /\ circuit_breaker.failure_count > 0
        /\ ~initialized

\* C26: when a call of initialize() ends, it returns True exactly if its
\* public probe returned a non-empty list; _initialized is True if it returns
\* True and False if it returns False.
C26_InitializedIffProbe ==
    [][\A p \in Callers :
          (/\ task[p].pc # "done"
           /\ task'[p].pc = "done"
           /\ task'[p].op = "initialize") =>
              /\ (task'[p].raised = "none") <=> (task'[p].markets = "nonempty")
              /\ (task'[p].raised = "none") => initialized'
              /\ (task'[p].raised # "none") => ~initialized']_vars

\* C23: a task awaits get_candles for a timeframe only with the permission
\* of that timeframe, returned to the same task by the request_api_permission
\* call that came just before; each fetch uses up its permission, and a
\* permission request that raises is followed by the next timeframe (or the
\* end of the fetches), never by a fetch.
C23_PermissionBeforeFetch ==
    /\ [](\A s \in CycleStarters, a \in Assets :
            analysis[s][a].pc = "candles" =>
                analysis[s][a].permit = analysis[s][a].tf)
    /\ [][\A s \in CycleStarters, a \in Assets :
            LET t == analysis[s][a]
                t2 == analysis'[s][a]
            IN  /\ (t2.pc = "candles" /\ t.pc # "candles") =>
                       /\ t.pc = "permission"
                       /\ t.permit = 0
                       /\ t2.tf = t.tf
                       /\ t2.permit = t.tf
                /\ (t.pc = "candles" /\ t2 # t) =>
                       /\ t2.pc \in {"permission", "done"}
                       /\ t2.permit = 0
                /\ (t.pc = "permission" /\ t2.pc = "permission" /\ t2 # t) =>
                       /\ t2.tf = t.tf + 1
                       /\ ~t2.all_candles]_vars

C23_Witness ==
    \E s \in CycleStarters, a \in Assets :
        /\ analysis[s][a].pc = "candles"
        /\ analysis[s][a].tf = 3
        /\ analysis[s][a].permit = 3
        /\ ~analysis[s][a].all_candles

\* The clock of the rate limiter's runs has reached its last tick.
RLClockStopped == \A d \in RLTickSteps : now + d > RLMaxTime

\* C24: a call of _check_rate_limit that sleeps is resumed once its deadline
\* has passed and then returns; it sleeps at most once; and between its
\* call and its return it appends exactly one timestamp, the current time,
\* to the window of its endpoint (at the call when it does not sleep, when
\* it is resumed when it does) and none to any other window.
C24_AdmissionAlwaysGranted ==
    /\ \A p \in Callers :
          (task[p].pc = "rl_sleep") ~>
              (\/ task[p].pc = "admitted"
               \/ RLClockStopped /\ now < task[p].wake_at)
    /\ \A p \in Callers : (task[p].pc = "admitted") ~> (task[p].pc = "idle")
    /\ [](\A p \in Callers :
            /\ task[p].rl_sleeps <= 1
            /\ task[p].pc = "rl_sleep" => task[p].admissions = 0
            /\ task[p].pc = "admitted" => task[p].admissions = 1)
    /\ [][\A p \in Callers :
            LET e == task'[p].endpoint
                timestamps == Evict(request_timestamps[e], now)
            IN  /\ (task[p].pc # "admitted" /\ task'[p].pc = "admitted") =>
                       /\ request_timestamps'[e] = Append(timestamps, now)
                       /\ \A f \in Endpoints \ {e} :
                              request_timestamps'[f] = request_timestamps[f]
                /\ (task[p].pc = "idle" /\ task'[p].pc = "rl_sleep") =>
                       /\ request_timestamps'[e] = timestamps
                       /\ task'[p].wake_at > now
                /\ (task[p].pc = "rl_sleep") =>
                       task'[p].pc \in {"rl_sleep", "admitted"}
                /\ (task[p].pc = "admitted" /\ task'[p] # task[p]) =>
                       /\ task'[p].pc = "idle"
                       /\ request_timestamps' = request_timestamps]_vars

C24_Witness ==
    \E p \in Callers :
        /\ task[p].pc = "admitted"
        /\ task[p].rl_sleeps = 1
        /\ task[p].admissions = 1
        /\ now > task[p].wake_at
        /\ Len(request_timestamps[task[p].endpoint]) > 1

\* C27: whatever failed while earlier results were persisted, the results
\* given to _persist_analysis_result by the time the loop over the results
\* awaits a broadcast or has ended are all the results up to that point that
\* are not error-tagged, and no error-tagged one.
C27_EveryGoodResultPassed ==
    \A s \in CycleStarters :
        loop[s].pc \in {"broadcast", "sleep"} =>
            loop[s].passed =
                {i \in 1..Len(loop[s].results) :
                    i <= loop[s].idx /\ ~loop[s].results[i].error}

C27_Witness ==
    \E s \in CycleStarters :
        /\ loop[s].pc = "sleep"
        /\ Len(loop[s].results) = 3
        /\ loop[s].idx = 4
        /\ loop[s].results[1].error
        /\ loop[s].results[2].signal.type = "BUY"
        /\ loop[s].results[3].signal.type = "BUY"
        /\ loop[s].passed = {2, 3}
        /\ loop[s].persist_calls = 2 * Timeframes + 2

\* C28: when a _check_rate_limit call of a caller that asks for its
\* admissions one at a time has recorded its request, the window of its
\* endpoint holds at most as many timestamps as the endpoint's budget
\* (both sides doubled).
C28_BudgetKeptByOneCaller ==
    \A p \in SoloCallers :
        task[p].pc = "admitted" =>
            2 * Len(request_timestamps[task[p].endpoint])
                <= RateLimitTwice(task[p].endpoint)

\* The clock of the retry executor's runs has reached its last tick.
ExecClockStopped == \A d \in ExecTickSteps : now + d > ExecMaxTime

\* C29: a call of _execute_with_retry with max_retries >= 1 never invokes
\* the operation more than max_retries times and comes to an end: with the
\* result of the first attempt that succeeds, no attempt following it, or
\* with an error. After a network or an unexpected error the call sleeps
\* delay_factor * 2^attempt seconds and tries again, unless the attempt was
\* the last one: then it raises BingXError.
C29_RetriesBoundedAndEnd ==
    /\ \A p \in ExecCallers :
          (task[p].pc \in {"awaiting", "backoff"}) ~>
              (\/ task[p].pc = "done"
               \/ /\ task[p].pc = "backoff"
                  /\ ExecClockStopped
                  /\ now < task[p].wake_at)
    /\ [](\A p \in ExecCallers :
            /\ task[p].max_retries >= 1 =>
                  /\ task[p].invoked <= task[p].max_retries
                  /\ task[p].invoked <= task[p].attempt + 1
            /\ task[p].pc = "done" =>
                  \/ task[p].raised = "none" /\ task[p].last_outcome = "ok"
                  \/ task[p].raised # "none" /\ task[p].last_outcome # "ok")
    /\ [][\A p \in ExecCallers :
            /\ (Completes(p) /\ task'[p].last_outcome = "ok") =>
                  /\ task'[p].pc = "done"
                  /\ task'[p].raised = "none"
            /\ (Completes(p) /\ task'[p].last_outcome \in {"network", "other"}) =>
                  IF task[p].attempt < task[p].max_retries - 1
                  THEN /\ task'[p].pc = "backoff"
                       /\ task'[p].last_sleep =
                              task[p].delay_factor * (2 ^ task[p].attempt)
                       /\ task'[p].wake_at = now + 10 * task'[p].last_sleep
                       /\ task'[p].attempt = task[p].attempt
                  ELSE /\ task'[p].pc = "done"
                       /\ task'[p].raised = "BingXError"
            /\ (task[p].pc = "backoff" /\ task'[p] # task[p]) =>
                  /\ task'[p].pc = "awaiting"
                  /\ task'[p].attempt = task[p].attempt + 1
                  /\ task'[p].invoked = task[p].invoked + 1
                  /\ now >= task[p].wake_at
            /\ (task[p].pc = "done" /\ task'[p] # task[p]) =>
                  task'[p].pc = "idle"]_vars

C29_Witness ==
    \E p \in ExecCallers :
        /\ task[p].pc = "done"
        /\ task[p].max_retries = 3
        /\ task[p].delay_factor = default_delay_factor
        /\ task[p].invoked = 3
        /\ task[p].uniform = "mixed"
        /\ task[p].last_outcome = "other"
        /\ task[p].last_sleep = 2 * default_delay_factor
        /\ task[p].raised = "BingXError"

\* C30: the result of an analysis is error-tagged exactly when one of the
\* three timeframes gave no candles; with candles for every timeframe the
\* result is not error-tagged whichever of the indicator, volume and signal
\* computations raised, and carries their failures as sub-results.
C30_ErrorTagIffCandlesMissing ==
    \A s \in CycleStarters, a \in Assets :
        LET t == analysis[s][a]
        IN  t.pc = "done" =>
                /\ t.result.error <=> ~t.all_candles
                /\ t.result.error => t.result.sub_errors = {}
                /\ t.result.sub_errors \subseteq Computations

C30_Witness ==
    \E s \in CycleStarters, a \in Assets :
        /\ analysis[s][a].pc = "done"
        /\ analysis[s][a].all_candles
        /\ ~analysis[s][a].result.error
        /\ analysis[s][a].result.sub_errors = Computations
        /\ analysis[s][a].result.signal = NoSignal
        /\ analysis_stats.successful > 0

\* C31 as claimed: the results given to _persist_analysis_result are given in
\* the order in which their tasks completed.
C31_PersistedInCompletionOrder ==
    \A s \in CycleStarters :
        \A i, j \in loop[s].passed :
            i < j => loop[s].ranks[i] < loop[s].ranks[j]

\* C31 as amended: the results are given to _persist_analysis_result one at
\* a time in the order of the asset list, which is the order of the list
\* gather returns, whatever the order in which the tasks completed: the loop
\* awaits at most one broadcast, that of the last result given, and every
\* result given so far stands before it in the list.
C31_PersistedInListOrder ==
    /\ [](\A s \in CycleStarters :
            /\ Len(loop[s].results) = Len(loop[s].ranks)
            /\ loop[s].pc = "broadcast" =>
                  /\ loop[s].idx \in loop[s].passed
                  /\ \A i \in loop[s].passed : i <= loop[s].idx
            /\ loop[s].results # <<>> =>
                  \A i \in 1..Len(loop[s].results) :
                      loop[s].results[i].asset = loop[s].assets[i])
    /\ [][\A s \in CycleStarters :
            (loop[s].pc = "broadcast" /\ loop'[s] # loop[s]) =>
                /\ loop[s].passed \subseteq loop'[s].passed
                /\ \A j \in loop'[s].passed \ loop[s].passed :
                       j > loop[s].idx]_vars

C31_Witness ==
    \E s \in CycleStarters :
        /\ loop[s].pc = "broadcast"
        /\ loop[s].idx = 3
        /\ loop[s].passed = {1, 2, 3}
        /\ loop[s].ranks = <<3, 1, 2>>

\* C32: every public operation called with a symbol invokes the exchange
\* operation with the BASE-QUOTE form of it, each '/' replaced by '-', and
\* never with a form that holds a '/'.
C32_WireFormEverywhere ==
    \A p \in ClientCallers :
        (/\ task[p].op \in Operations
         /\ task[p].args.symbol = "ok"
         /\ task[p].invoked > 0) =>
            /\ task[p].wire = Replace(PublicSymbol, "/", "-")
            /\ \A i \in 1..Len(task[p].wire) : task[p].wire[i] # "/"

\* C33: analyze_specific_symbol never raises: a symbol that is not found, a
\* lookup that raises, an analysis that fails and a persistence that raises
\* all end in a returned result with 'error'. _persist_analysis_result is
\* called once when the analysis result carries no error, and not at all
\* otherwise; none of this reads is_running.
C33_OnDemandNeverRaises ==
    /\ ~pcall.od.raised
    /\ pcall.od.pc = "analysing" => pcall.od.persist_calls = 0
    /\ pcall.od.pc = "persisting" =>
          /\ pcall.od.persist_calls = 1
          /\ ~pcall.od.an.result.error
    /\ pcall.od.pc = "done" =>
          /\ pcall.od.persist_calls =
                IF pcall.od.an.pc = "done" /\ ~pcall.od.an.result.error
                THEN 1 ELSE 0
          /\ (pcall.od.an.pc # "done" \/ pcall.od.an.result.error) =>
                pcall.od.returned.error
          /\ ~pcall.od.returned.error => pcall.od.returned = pcall.od.an.result

C33_Witness ==
    /\ pcall.od.pc = "done"
    /\ pcall.od.running
    /\ pcall.od.count = 1
    /\ pcall.od.persist_calls = 1
    /\ ~pcall.od.returned.error
    /\ pcall.created = 1

C35_StoppedMeansUnregistered ==
    (/\ \A s \in Starters : loop[s].pc \in {"idle", "returned"}
     /\ stopper.pc \in {"idle", "returned"}
     /\ ~is_running) =>
        ~coordinator.registered

\* The clock of the worker's runs cannot reach the deadline of the sleep that
\* start() call s is in.
WorkerClockStopped(s) ==
    loop[s].pc = "sleep" /\ loop[s].wake_at > WorkerMaxTime

\* C36: once stop() has cleared is_running on a worker whose start() call is
\* inside the cycle loop, and no start() follows, is_running stays False, no
\* new cycle starts, the cycle in progress goes on to its end, a sleep is
\* followed by the return and not by a further sleep, and, with every awaited
\* collaborator returning, the loop is left in the end (unless its sleep ends
\* beyond the last tick of the run).
C36_LoopExitsAfterStop ==
    /\ [][\A s \in WorkerStarters :
            (~is_running /\ loop[s].pc \in LoopPcs) =>
                /\ ~is_running'
                /\ loop'[s].cycles = loop[s].cycles
                /\ loop'[s].pc \in LoopPcs \cup {"returned"}
                /\ loop'[s].pc = "returned" => ~loop'[s].raised
                /\ (loop[s].pc = "sleep" /\ loop'[s] # loop[s]) =>
                       loop'[s].pc = "returned"]_vars
    /\ \A s \in WorkerStarters :
          (~is_running /\ loop[s].pc \in LoopPcs)
            ~> (loop[s].pc = "returned" \/ WorkerClockStopped(s))

C36_Witness ==
    \E s \in WorkerStarters :
        /\ loop[s].pc = "returned"
        /\ ~loop[s].raised
        /\ loop[s].cycles = 1
        /\ loop[s].ended = "normal"
        /\ loop[s].passed = {1}
        /\ loop[s].wake_at > 0
        /\ stopper.pc = "returned"
        /\ ~stopper.noop
        /\ ~is_running

\* C37: a public operation that ends with ValidationError has been through
\* _check_rate_limit, where it may have slept: the call has added one
\* timestamp, the current time, to the window of its endpoint and to no
\* other, after the eviction of the entries older than the window; the
\* circuit breaker is as it was and the retry executor has not been entered.
C37_RejectedAfterAdmission ==
    [][\A p \in ClientCallers :
          /\ (task'[p].raised = "ValidationError" /\ task[p].raised # "ValidationError") =>
                LET e == task'[p].endpoint
                    old == request_timestamps[e]
                    new == request_timestamps'[e]
                    kept == {i \in 1..Len(old) : now - old[i] <= rate_limit_window}
                IN  /\ e = EndpointOf(task'[p].op)
                    /\ task'[p].admissions = 1
                    /\ Len(new) = Cardinality(kept) + 1
                    /\ new[Len(new)] = now
                    /\ \A f \in Endpoints \ {e} :
                           request_timestamps'[f] = request_timestamps[f]
                    /\ circuit_breaker' = circuit_breaker
                    /\ task'[p].executor_calls = 0
                    /\ task'[p].invoked = 0
          /\ (task[p].pc = "rl_sleep" /\ task[p].op \in Operations) =>
                /\ circuit_breaker' = circuit_breaker
                /\ task[p].admissions = 0
                /\ request_timestamps' # request_timestamps =>
                       task'[p].admissions = 1]_vars

C37_Witness ==
    \E p \in ClientCallers :
        /\ task[p].op = "fetch_orderbook"
        /\ task[p].raised = "ValidationError"
        /\ task[p].rl_sleeps = 1
        /\ task[p].admissions = 1
        /\ request_timestamps["fetch_orderbook"] = <<now>>
        /\ now > rate_limit_window

\* timestamps without its entries older than the window, wherever they are.
WithinWindow(timestamps, current_time) ==
    SelectSeq(timestamps, LAMBDA ts : current_time - ts <= rate_limit_window)

\* C38: under any interleaving of concurrent admissions on a clock that does
\* not go back, every endpoint's deque is non-decreasing from head to tail
\* and holds no time of the future: the head is the oldest request, the
\* eviction from the head removes exactly the entries older than the window,
\* and each step leaves a deque as it was, or evicted, or evicted with the
\* current time appended.
C38_WindowSorted ==
    /\ [](\A e \in Endpoints :
            LET q == request_timestamps[e]
            IN  /\ \A i, j \in 1..Len(q) : i < j => q[i] <= q[j]
                /\ \A i \in 1..Len(q) : q[i] <= now
                /\ Evict(q, now) = WithinWindow(q, now))
    /\ [][now' >= now /\
          \A e \in Endpoints :
            \/ request_timestamps'[e] = request_timestamps[e]
            \/ request_timestamps'[e] = WithinWindow(request_timestamps[e], now)
            \/ request_timestamps'[e] =
                   Append(WithinWindow(request_timestamps[e], now), now)]_vars

C38_Witness ==
    \E e \in Endpoints :
        LET q == request_timestamps[e]
        IN  /\ Len(q) = 2
            /\ q[1] < q[2]
            /\ now - q[1] > rate_limit_window
            /\ \A p \in Callers : task[p].endpoint = e
            /\ \E p \in Callers : task[p].pc = "admitted" /\ task[p].rl_sleeps = 1
            /\ \E p \in Callers : task[p].pc = "rl_sleep"

\* C39: whatever the interleaving of the per-asset analyses of a cycle and
\* the on-demand analyses, total_analyses = successful_analyses +
\* failed_analyses in every state, no counter ever decreases, and
\* total_analyses grows by one in exactly the steps in which a call of
\* _analyze_single_asset returns.
C39_StatsConsistent ==
    /\ [](/\ analysis_stats.total =
               analysis_stats.successful + analysis_stats.failed
           /\ analysis_stats.successful >= 0
           /\ analysis_stats.failed >= 0)
    /\ [][LET returned ==
                {sa \in CycleStarters \X Assets :
                    /\ analysis[sa[1]][sa[2]].pc \in {"permission", "candles"}
                    /\ analysis'[sa[1]][sa[2]].pc = "done"}
              od_returned ==
                /\ pcall.od.pc = "analysing"
                /\ pcall'.od.pc # "analysing"
          IN  /\ analysis_stats'.total =
                    analysis_stats.total + Cardinality(returned)
                        + (IF od_returned THEN 1 ELSE 0)
              /\ analysis_stats'.successful >= analysis_stats.successful
              /\ analysis_stats'.failed >= analysis_stats.failed
              /\ analysis_stats'.signals >= analysis_stats.signals]_vars

C39_Witness ==
    /\ analysis_stats.total = 1
    /\ analysis_stats.failed = 1
    /\ pcall.od.pc = "analysing"
    /\ pcall.od.count = 1
    /\ pcall.od.an.tf = 2
    /\ \E s \in CycleStarters :
          /\ loop[s].pc = "gather"
          /\ analysis[s][1].pc = "candles"
          /\ analysis[s][2].pc = "done"
          /\ analysis[s][2].result.error

\* C40: in normal (non-test) mode signals_generated counts exactly the
\* analysed assets whose signal is passed to create_signal: after the
\* persistence of a worker's first cycle the counter equals the number of
\* results without 'error' whose signal is non-neutral with a confidence at or
\* above the persistence threshold.
C40_CountedIffPersisted ==
    \A s \in CycleStarters :
        (/\ ~config.test_mode
         /\ loop[s].pc = "sleep"
         /\ loop[s].cycles = 1
         /\ loop[s].results # <<>>) =>
            analysis_stats.signals =
                Cardinality({i \in 1..Len(loop[s].results) :
                    /\ ~loop[s].results[i].error
                    /\ Persistable(loop[s].results[i].signal, config)})

====
